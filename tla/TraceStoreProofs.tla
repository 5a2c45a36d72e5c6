---------------------------- MODULE TraceStoreProofs ----------------------------
(***************************************************************************)
(* Proofs about TraceStore and LibraryReads for every set of clients,      *)
(* readers, runs, operations and every number of attempts.                 *)
(*                                                                         *)
(* The inductive invariant of the store has three parts: types, agreement  *)
(* of the tables, and ReadsAreCurrent, which says how far a commit may     *)
(* trust the read it rests on.  With what calls in flight keep true of     *)
(* themselves (CallInv) it shows that the store implements AtomicStore;    *)
(* with what a reader has selected so far (ReadInv), that answers are      *)
(* sound.                                                                  *)
(***************************************************************************)
EXTENDS LibraryReads, LibraryProofs, FiniteSetTheorems

IInv == TypeOK /\ TablesConsistent /\ ReadsAreCurrent

-----------------------------------------------------------------------------
(* Calls and reads.                                                        *)

(* The fields of a call have the types its operation asks for. *)
LEMMA CallFields ==
  ASSUME NEW k \in Call
  PROVE  /\ k # None
         /\ k.op \in OpNames
         /\ k.op \in {"ingest", "restore", "annotate"} => k.run \in RunIds
         /\ k.op \in {"ingest", "restore"} => k.trace \in Traces
         /\ k.op = "restore" => k.review \in Bundled /\ k.policy \in Policies
         /\ k.op = "annotate" => k.label \in Labels \cup {None}
                                 /\ k.decision \in Decisions \cup {None}
         /\ k.op \in {"bulk_label", "bulk_decide", "prune"} => k.runs \in SUBSET RunIds
         /\ k.op = "bulk_label" => k.label \in Labels
         /\ k.op = "bulk_decide" => k.decision \in Decisions
         /\ k.op = "prune" => k.cutoff \in Int /\ k.keep_labeled \in BOOLEAN
         /\ k.op = "save_comparison" => k.comparison \in Comparison
         /\ k.op = "delete_comparison" => k.comparison_id \in ComparisonIds
BY CallAssumption
DEF Call, IngestCall, RestoreCall, AnnotateCall, LabelCall, DecideCall, PruneCall,
    SaveCall, DeleteCall, OpNames, RunSets

(* Every call a client may start is a call. *)
LEMMA CallsAreCalls ==
  ASSUME TablesTypeOK
  PROVE  Calls \subseteq Call
<1>1. \A age \in Ages : now - age \in Int
  BY LibraryAssumption DEF TablesTypeOK
<1>2. QED
  BY <1>1 DEF Calls, Call, PruneCall

(* The steps a call starts with, first or again. *)
LEMMA FirstSteps ==
  ASSUME NEW k \in Call
  PROVE  FirstStep(k) \in {"read", "begin"} /\ RetryStep(k) \in {"read", "begin"}
BY DEF FirstStep, RetryStep

(* A read returns rows and histories, each as committed. *)
LEMMA SnapshotType ==
  ASSUME TablesTypeOK, NEW k \in Call
  PROVE  /\ Snapshot(k) \in [runs : [RunIds -> Row \cup {None}],
                             history : [RunIds -> Seq(Change)]]
         /\ NothingSeen \in [runs : [RunIds -> Row \cup {None}],
                             history : [RunIds -> Seq(Change)]]
         /\ \A r \in RunIds : Snapshot(k).runs[r] \in {runs[r], None}
         /\ \A r \in RunIds \cap SelectedBy(k, SecondStep(k)) : Snapshot(k).runs[r] = runs[r]
<1>1. << >> \in Seq(Change)
  OBVIOUS
<1>2. QED
  BY <1>1, CallFields DEF TablesTypeOK, Snapshot, NothingSeen

(* What a call has selected are runs; only a comparison at its second      *)
(* lookup has some of it to come.                                          *)
LEMMA SelectedRuns ==
  ASSUME NEW k \in Call, ReadsFirst(k), NEW step,
         step = "run_b" => k.op = "save_comparison"
  PROVE  /\ SelectedBy(k, step) \subseteq RunIds
         /\ step # "run_b" => SelectedBy(k, step) = ReadSet(k)
BY CallFields DEF SelectedBy, ReadSet, ReadsFirst, Comparison

(* The review a restore writes is a review, stamped as rows must be. *)
LEMMA SelectedReviewType ==
  ASSUME NEW k \in Call, k.op = "restore",
         NEW read \in [runs : [RunIds -> Row \cup {None}],
                       history : [RunIds -> Seq(Change)]],
         \A r \in RunIds : read.runs[r] # None =>
            Stamped(read.runs[r].decision, read.runs[r].decision_at)
  PROVE  /\ SelectedReview(k, read) \in Review
         /\ Stamped(SelectedReview(k, read).decision,
                    SelectedReview(k, read).decision_at)
<1>1. k.run \in RunIds /\ k.review \in Bundled
  BY CallFields
<1>2. CASE k.policy = "keep-local" /\ read.runs[k.run] # None
  <2>1. read.runs[k.run] \in Row /\ read.history[k.run] \in Seq(Change)
    BY <1>1, <1>2
  <2>2. QED
    BY <1>1, <1>2, <2>1 DEF SelectedReview, Review, Row
<1>3. CASE ~(k.policy = "keep-local" /\ read.runs[k.run] # None)
  BY <1>1, <1>3, BundleAssumption DEF SelectedReview
<1>4. QED
  BY <1>2, <1>3

-----------------------------------------------------------------------------
(* Types of the clients.                                                   *)

(* Ending a call keeps the clients type correct. *)
LEMMA EndTypes ==
  ASSUME ClientsTypeOK, NEW c \in Clients, NEW outcome \in Outcomes, End(c, outcome),
         stale' \in [Clients -> SUBSET RunIds]
  PROVE  ClientsTypeOK'
<1>1. NothingSeen \in [runs : [RunIds -> Row \cup {None}],
                       history : [RunIds -> Seq(Change)]]
  BY DEF NothingSeen
<1>2. seen' \in [Clients -> [runs : [RunIds -> Row \cup {None}],
                             history : [RunIds -> Seq(Change)]]]
  BY <1>1 DEF ClientsTypeOK, End
<1>3. attempts' \in [Clients -> 0 .. Attempts - 1]
  BY ClientAssumption DEF ClientsTypeOK, End
<1>4. /\ call' \in [Clients -> Call \cup {None}]
      /\ pc' \in [Clients -> Steps]
      /\ lock' \in Clients \cup {None}
      /\ result' \in [Clients -> Outcomes]
  BY DEF ClientsTypeOK, End, Steps
<1>5. \A d \in Clients : pc'[d] = "idle" <=> call'[d] = None
  BY DEF ClientsTypeOK, End
<1>6. \A d \in Clients : pc'[d] = "commit" <=> lock' = d
  BY ClientAssumption DEF ClientsTypeOK, End
<1>7. \A d \in Clients : pc'[d] = "history" =>
         call'[d].op = "restore" /\ seen'[d].runs[call'[d].run] # None
  BY DEF ClientsTypeOK, End
<1>8. \A d \in Clients : pc'[d] = "run_b" => call'[d].op = "save_comparison"
  BY DEF ClientsTypeOK, End
<1>9. QED
  BY <1>2, <1>3, <1>4, <1>5, <1>6, <1>7, <1>8 DEF ClientsTypeOK

(* What a commit makes outdated is a set of runs. *)
LEMMA OutdatedType ==
  ASSUME ClientsTypeOK, NEW c \in Clients
  PROVE  Outdated(c) \in [Clients -> SUBSET RunIds]
BY DEF ClientsTypeOK, Outdated, ChangedRuns

(* A commit that goes on to read back keeps the clients type correct. *)
LEMMA CommittedTypes ==
  ASSUME ClientsTypeOK, NEW c \in Clients, pc[c] = "commit", Committed(c)
  PROVE  ClientsTypeOK'
<1>1. seen' \in [Clients -> [runs : [RunIds -> Row \cup {None}],
                             history : [RunIds -> Seq(Change)]]]
  BY DEF ClientsTypeOK, Committed, NothingSeen
<1>2. attempts' \in [Clients -> 0 .. Attempts - 1]
  BY ClientAssumption DEF ClientsTypeOK, Committed
<1>3. /\ pc' \in [Clients -> Steps] /\ lock' \in Clients \cup {None}
      /\ stale' \in [Clients -> SUBSET RunIds]
  BY OutdatedType DEF ClientsTypeOK, Committed, Steps
<1>4. \A d \in Clients : pc'[d] = "idle" <=> call'[d] = None
  BY DEF ClientsTypeOK, Committed
<1>5. \A d \in Clients : pc'[d] = "commit" <=> lock' = d
  BY ClientAssumption DEF ClientsTypeOK, Committed
<1>6. QED
  BY <1>1, <1>2, <1>3, <1>4, <1>5 DEF ClientsTypeOK, Committed

(* A commit that ends the call keeps the clients type correct. *)
LEMMA CommittedAndDoneTypes ==
  ASSUME ClientsTypeOK, NEW c \in Clients, CommittedAndDone(c)
  PROVE  ClientsTypeOK'
BY EndTypes, OutdatedType DEF CommittedAndDone, Outcomes

(* So does giving up. *)
LEMMA GiveUpTypes ==
  ASSUME TypeOK, NEW c \in Clients, NEW outcome \in Outcomes, GiveUp(c, outcome)
  PROVE  TypeOK'
<1>1. stale' \in [Clients -> SUBSET RunIds]
  BY DEF GiveUp, TypeOK, ClientsTypeOK
<1>2. ClientsTypeOK'
  BY <1>1, EndTypes DEF GiveUp, TypeOK
<1>3. QED
  BY <1>2 DEF GiveUp, TypeOK, TablesTypeOK, tables

(* The steps that change no table keep everything type correct. *)
LEMMA QuietTypes ==
  ASSUME TypeOK, NEW c \in Clients,
         Start(c) \/ Read(c) \/ ReadHistory(c) \/ ReadRunB(c) \/ BeginWrite(c) \/ LockTimeout(c)
  PROVE  TypeOK'
<1>1. TablesTypeOK'
  BY DEF TypeOK, TablesTypeOK, Start, Read, ReadHistory, ReadRunB, BeginWrite, LockTimeout, tables
<1>2. CASE Start(c)
  <2>1. PICK k \in Call : call' = [call EXCEPT ![c] = k]
                          /\ pc' = [pc EXCEPT ![c] = FirstStep(k)]
    BY <1>2, CallsAreCalls DEF Start, TypeOK
  <2>2. FirstStep(k) \in {"read", "begin"} /\ k # None
    BY FirstSteps, CallFields
  <2>3. ClientsTypeOK'
    BY <1>2, <2>1, <2>2 DEF Start, TypeOK, ClientsTypeOK, Steps, Outcomes
  <2>4. QED
    BY <1>1, <2>3 DEF TypeOK
<1>3. CASE Read(c)
  <2>1. call[c] \in Call
    BY <1>3 DEF Read, TypeOK, ClientsTypeOK
  <2>2. Snapshot(call[c]) \in [runs : [RunIds -> Row \cup {None}],
                               history : [RunIds -> Seq(Change)]]
    BY <2>1, SnapshotType DEF TypeOK
  <2>3. seen' \in [Clients -> [runs : [RunIds -> Row \cup {None}],
                               history : [RunIds -> Seq(Change)]]]
    BY <1>3, <2>2 DEF Read, TypeOK, ClientsTypeOK
  <2>7. seen'[c] = Snapshot(call[c])
    BY <1>3 DEF Read, TypeOK, ClientsTypeOK
  <2>8. /\ SecondStep(call[c]) \in {"history", "run_b", "begin"}
        /\ SecondStep(call[c]) = "run_b" => call[c].op = "save_comparison"
        /\ SecondStep(call[c]) = "history" =>
             call[c].op = "restore" /\ Stored(call[c].run)
    BY DEF SecondStep
  <2>9. ASSUME SecondStep(call[c]) = "history"
        PROVE  seen'[c].runs[call[c].run] # None
    <3>1. call[c].run \in RunIds /\ call[c].run \in SelectedBy(call[c], SecondStep(call[c]))
      BY <2>1, <2>8, <2>9, CallFields DEF SelectedBy, ReadSet
    <3>2. Snapshot(call[c]).runs[call[c].run] = runs[call[c].run]
      BY <3>1 DEF Snapshot
    <3>3. QED
      BY <2>7, <2>8, <2>9, <3>2 DEF Stored
  <2>4. /\ SecondStep(call[c]) \in {"history", "run_b", "begin"}
        /\ SecondStep(call[c]) = "run_b" => call[c].op = "save_comparison"
        /\ SecondStep(call[c]) = "history" =>
             call[c].op = "restore" /\ seen'[c].runs[call[c].run] # None
    BY <2>8, <2>9
  <2>5. ClientsTypeOK'
    BY <1>3, <2>3, <2>4 DEF Read, TypeOK, ClientsTypeOK, Steps
  <2>6. QED
    BY <1>1, <2>5 DEF TypeOK
<1>7. CASE ReadHistory(c)
  <2>1. call[c] \in Call /\ call[c].run \in RunIds
    BY <1>7, CallFields DEF ReadHistory, TypeOK, ClientsTypeOK
  <2>2. history[call[c].run] \in Seq(Change)
    BY <2>1 DEF TypeOK, TablesTypeOK
  <2>3. seen' \in [Clients -> [runs : [RunIds -> Row \cup {None}],
                               history : [RunIds -> Seq(Change)]]]
    BY <1>7, <2>1, <2>2 DEF ReadHistory, TypeOK, ClientsTypeOK
  <2>4. \A d \in Clients : d # c => pc'[d] = pc[d] /\ seen'[d] = seen[d]
    BY <1>7 DEF ReadHistory, TypeOK, ClientsTypeOK
  <2>5. ClientsTypeOK'
    BY <1>7, <2>3, <2>4 DEF ReadHistory, TypeOK, ClientsTypeOK, Steps
  <2>6. QED
    BY <1>1, <2>5 DEF TypeOK
<1>8. CASE ReadRunB(c)
  <2>1. call[c] \in Call /\ call[c].op = "save_comparison" /\ pc[c] = "run_b"
    BY <1>8 DEF ReadRunB, TypeOK, ClientsTypeOK
  <2>2. PICK b \in RunIds : b = call[c].comparison.run_b
    BY <2>1, CallFields DEF Comparison
  <2>3. runs[b] \in Row \cup {None}
    BY DEF TypeOK, TablesTypeOK
  <2>4. seen' \in [Clients -> [runs : [RunIds -> Row \cup {None}],
                               history : [RunIds -> Seq(Change)]]]
    BY <1>8, <2>2, <2>3 DEF ReadRunB, TypeOK, ClientsTypeOK
  <2>5. stale' \in [Clients -> SUBSET RunIds]
    BY <1>8 DEF ReadRunB, TypeOK, ClientsTypeOK
  <2>6. \A d \in Clients : d # c => pc'[d] = pc[d] /\ seen'[d] = seen[d]
    BY <1>8 DEF ReadRunB, TypeOK, ClientsTypeOK
  <2>7. ClientsTypeOK'
    BY <1>8, <2>4, <2>5, <2>6 DEF ReadRunB, TypeOK, ClientsTypeOK, Steps
  <2>8. QED
    BY <1>1, <2>7 DEF TypeOK
<1>4. CASE BeginWrite(c)
  <2>1. ClientsTypeOK'
    BY <1>4, ClientAssumption DEF BeginWrite, TypeOK, ClientsTypeOK, Steps
  <2>2. QED
    BY <1>1, <2>1 DEF TypeOK
<1>5. CASE LockTimeout(c)
  <2>1. call[c] \in Call
    BY <1>5 DEF LockTimeout, TypeOK, ClientsTypeOK
  <2>2. RetryStep(call[c]) \in {"read", "begin"}
    BY <2>1, FirstSteps
  <2>8. NothingSeen \in [runs : [RunIds -> Row \cup {None}],
                         history : [RunIds -> Seq(Change)]]
    BY DEF NothingSeen
  <2>9. \/ seen' = seen /\ stale' = stale
        \/ /\ seen' = [seen EXCEPT ![c] = NothingSeen]
           /\ stale' = [stale EXCEPT ![c] = {}]
    BY <1>5 DEF LockTimeout
  <2>3. seen' \in [Clients -> [runs : [RunIds -> Row \cup {None}],
                               history : [RunIds -> Seq(Change)]]]
    BY <2>8, <2>9 DEF TypeOK, ClientsTypeOK
  <2>7. stale' \in [Clients -> SUBSET RunIds]
    BY <2>9 DEF TypeOK, ClientsTypeOK
  <2>4. attempts' \in [Clients -> 0 .. Attempts - 1]
    BY <1>5, ClientAssumption DEF LockTimeout, TypeOK, ClientsTypeOK
  <2>5. ClientsTypeOK'
    BY <1>5, <2>2, <2>3, <2>4, <2>7 DEF LockTimeout, TypeOK, ClientsTypeOK, Steps
  <2>6. QED
    BY <1>1, <2>5 DEF TypeOK
<1>6. QED
  BY <1>2, <1>3, <1>4, <1>5, <1>7, <1>8

-----------------------------------------------------------------------------
(* Commits.                                                                *)

(* What a commit rests on: all its SELECTs are done, and current up to     *)
(* stale.                                                                  *)
LEMMA CommitsRestOnReads ==
  ASSUME ReadsAreCurrent, NEW c \in Clients, pc[c] = "commit", ReadsFirst(call[c])
  PROVE  /\ call[c].op \in {"annotate", "save_comparison"} =>
               \A r \in ReadSet(call[c]) : seen[c].runs[r] # None
         /\ \A r \in ReadSet(call[c]) \ stale[c] :
               /\ seen[c].runs[r] = runs[r]
               /\ call[c].op = "restore" /\ Stored(r) => seen[c].history[r] = history[r]
BY DEF ReadsAreCurrent, SelectedBy

(* A commit keeps the types, and keeps the tables consistent: the review   *)
(* it restores is one, and rows are only inserted for stored runs.         *)
LEMMA CommitKeepsTables ==
  ASSUME IInv, NEW c \in Clients, Commit(c)
  PROVE  TypeOK' /\ TablesConsistent'
<1> USE DEF IInv, TypeOK, TablesConsistent
<1> DEFINE k == call[c]
<1>1. pc[c] = "commit" /\ k \in Call /\ now \in Nat
  BY DEF Commit, Committing, CommitIngest, CommitRestore, CommitAnnotate, CommitBulkLabel,
         CommitBulkDecide, CommitPrune, CommitSaveComparison, CommitDeleteComparison,
         ClientsTypeOK, TablesTypeOK
<1>2. now' \in Nat
  BY <1>1 DEF Commit, CommitIngest, CommitRestore, CommitAnnotate, CommitBulkLabel,
         CommitBulkDecide, CommitPrune, CommitSaveComparison, CommitDeleteComparison,
         Committed, CommittedAndDone
<1>3. ClientsTypeOK'
  BY <1>1, CommittedTypes, CommittedAndDoneTypes
  DEF Commit, CommitIngest, CommitRestore, CommitAnnotate, CommitBulkLabel,
      CommitBulkDecide, CommitPrune, CommitSaveComparison, CommitDeleteComparison
<1>4. CASE CommitIngest(c)
  <2>1. k.run \in RunIds /\ k.trace \in Traces /\ Ingested(k.run, k.trace)
    BY <1>1, <1>4, CallFields DEF CommitIngest, Committing
  <2>2. QED
    BY <1>2, <1>3, <2>1, IngestedTypes, IngestedAgrees
<1>5. CASE CommitRestore(c)
  <2> DEFINE review == SelectedReview(k, seen[c])
  <2>1. k.op = "restore" /\ k.run \in RunIds /\ k.trace \in Traces
        /\ Restored(k.run, k.trace, review)
    BY <1>1, <1>5, CallFields DEF CommitRestore, Committing
  <2>2. review \in Review /\ Stamped(review.decision, review.decision_at)
    BY <1>1, <2>1, SelectedReviewType DEF ClientsTypeOK, ReadsAreCurrent
  <2> HIDE DEF review
  <2>3. QED
    BY <1>2, <1>3, <2>1, <2>2, RestoredTypes, RestoredAgrees
<1>6. CASE CommitAnnotate(c)
  <2>1. /\ k.op = "annotate" /\ k.run \in RunIds /\ Stored(k.run)
        /\ k.label \in Labels \cup {None} /\ k.decision \in Decisions \cup {None}
        /\ Annotated(k.run, k.label, k.decision, seen[c].runs[k.run].decision)
    BY <1>1, <1>6, CallFields DEF CommitAnnotate, Committing
  <2>2. seen[c].runs[k.run] # None
    BY <1>1, <2>1, CommitsRestOnReads DEF ReadsFirst, ReadSet
  <2>3. seen[c].runs[k.run].decision \in Decisions
    BY <2>1, <2>2 DEF ClientsTypeOK, Row
  <2>4. QED
    BY <1>2, <1>3, <2>1, <2>3, AnnotatedTypes, AnnotatedAgrees
<1>7. CASE CommitBulkLabel(c)
  <2>1. k.runs \in SUBSET RunIds /\ k.label \in Labels /\ BulkLabeled(k.runs, k.label)
    BY <1>1, <1>7, CallFields DEF CommitBulkLabel, Committing
  <2>2. QED
    BY <1>2, <1>3, <2>1, BulkLabeledTypes, BulkLabeledAgrees
<1>8. CASE CommitBulkDecide(c)
  <2>1. /\ k.runs \in SUBSET RunIds /\ k.decision \in Decisions
        /\ BulkDecided(k.runs, k.decision, seen[c].runs)
        /\ \A r \in Changing(k.runs, k.decision, seen[c].runs) : Stored(r)
    BY <1>1, <1>8, CallFields DEF CommitBulkDecide, Committing
  <2>2. seen[c].runs \in [RunIds -> Row \cup {None}]
    BY DEF ClientsTypeOK
  <2>3. QED
    BY <1>2, <1>3, <2>1, <2>2, BulkDecidedTypes, BulkDecidedAgrees
<1>9. CASE CommitPrune(c)
  <2>1. PICK gone \in SUBSET RunIds : Deleted(gone)
    BY <1>1, <1>9, CallFields DEF CommitPrune, Committing, Eligible
  <2>2. QED
    BY <1>2, <1>3, <2>1, DeletedTypes, DeletedAgrees
<1>10. CASE CommitSaveComparison(c)
  <2>1. /\ k.comparison \in Comparison /\ ComparisonSaved(k.comparison)
        /\ Stored(k.comparison.run_a) /\ Stored(k.comparison.run_b)
    BY <1>1, <1>10, CallFields DEF CommitSaveComparison, Committing
  <2>2. QED
    BY <1>2, <1>3, <2>1, ComparisonSavedTypes, ComparisonSavedAgrees
<1>11. CASE CommitDeleteComparison(c)
  <2>1. k.comparison_id \in ComparisonIds /\ ComparisonDeleted(k.comparison_id)
    BY <1>1, <1>11, CallFields DEF CommitDeleteComparison, Committing
  <2>2. QED
    BY <1>2, <1>3, <2>1, ComparisonDeletedTypes, ComparisonDeletedAgrees
<1>12. QED
  BY <1>4, <1>5, <1>6, <1>7, <1>8, <1>9, <1>10, <1>11 DEF Commit

-----------------------------------------------------------------------------
(* Reads.                                                                  *)

(* What ReadsAreCurrent says of one client. *)
ReadIsCurrent(d) ==
  /\ \A r \in RunIds : seen[d].runs[r] # None =>
        Stamped(seen[d].runs[r].decision, seen[d].runs[r].decision_at)
  /\ pc[d] \in {"history", "run_b", "begin", "commit"} /\ ReadsFirst(call[d]) =>
       /\ call[d].op \in {"annotate", "save_comparison"} =>
             \A r \in SelectedBy(call[d], pc[d]) : seen[d].runs[r] # None
       /\ \A r \in SelectedBy(call[d], pc[d]) \ stale[d] :
             /\ seen[d].runs[r] = runs[r]
             /\ call[d].op = "restore" /\ pc[d] # "history" /\ Stored(r) =>
                   seen[d].history[r] = history[r]

(* A client that does not move keeps a current read as long as every run   *)
(* that changes joins its stale set.                                       *)
LEMMA OtherReadStaysCurrent ==
  ASSUME NEW d \in Clients, ReadIsCurrent(d),
         call'[d] = call[d], pc'[d] = pc[d], seen'[d] = seen[d],
         pc[d] \in {"history", "run_b", "begin", "commit"} /\ ReadsFirst(call[d]) =>
           \A r \in SelectedBy(call[d], pc[d]) \ stale'[d] :
              r \notin stale[d] /\ runs'[r] = runs[r] /\ history'[r] = history[r]
  PROVE  ReadIsCurrent(d)'
BY DEF ReadIsCurrent, Stored

(* A client that has no read to rely on has a current one. *)
LEMMA NoReadIsCurrent ==
  ASSUME NEW d \in Clients, seen'[d] = NothingSeen, pc'[d] \notin {"history", "run_b", "begin", "commit"}
  PROVE  ReadIsCurrent(d)'
BY DEF ReadIsCurrent, NothingSeen

(* Giving up leaves all reads current. *)
LEMMA GiveUpReads ==
  ASSUME IInv, NEW c \in Clients, NEW outcome, GiveUp(c, outcome)
  PROVE  ReadsAreCurrent'
<1>1. \A d \in Clients : ReadIsCurrent(d)
  BY DEF IInv, ReadsAreCurrent, ReadIsCurrent
<1>2. ReadIsCurrent(c)'
  BY NoReadIsCurrent DEF GiveUp, End, IInv, TypeOK, ClientsTypeOK
<1>3. ASSUME NEW d \in Clients, d # c PROVE ReadIsCurrent(d)'
  BY <1>1, <1>3, OtherReadStaysCurrent
  DEF GiveUp, End, tables, IInv, TypeOK, ClientsTypeOK
<1>4. QED
  BY <1>2, <1>3 DEF ReadsAreCurrent, ReadIsCurrent

(* So do the steps that change no table. *)
LEMMA QuietReads ==
  ASSUME IInv, NEW c \in Clients,
         Start(c) \/ Read(c) \/ ReadHistory(c) \/ ReadRunB(c) \/ BeginWrite(c) \/ LockTimeout(c)
  PROVE  ReadsAreCurrent'
<1> USE DEF IInv, TypeOK
<1>1. \A d \in Clients : ReadIsCurrent(d)
  BY DEF ReadsAreCurrent, ReadIsCurrent
<1>2. ASSUME NEW d \in Clients, d # c PROVE ReadIsCurrent(d)'
  <2>1. /\ call'[d] = call[d] /\ pc'[d] = pc[d] /\ seen'[d] = seen[d]
        /\ stale'[d] = stale[d] /\ UNCHANGED <<runs, history>>
    BY <1>2 DEF Start, Read, ReadHistory, ReadRunB, BeginWrite, LockTimeout, tables, ClientsTypeOK
  <2>2. QED
    BY <1>1, <2>1, OtherReadStaysCurrent
<1>3. ReadIsCurrent(c)'
  <2>1. CASE Start(c)
    BY <1>1, <2>1 DEF Start, FirstStep, ReadIsCurrent, ClientsTypeOK
  <2>2. CASE Read(c)
    <3>1. call[c] \in Call /\ seen'[c] = Snapshot(call[c])
          /\ call'[c] = call[c] /\ UNCHANGED <<runs, history>>
      BY <2>2 DEF Read, ClientsTypeOK, tables
    <3>2. \A r \in RunIds : Snapshot(call[c]).runs[r] # None =>
             Stored(r) /\ Snapshot(call[c]).runs[r] = runs[r]
      BY <3>1, SnapshotType DEF Stored
    <3>3. \A r \in RunIds : seen'[c].runs[r] # None =>
             Stamped(seen'[c].runs[r].decision, seen'[c].runs[r].decision_at)
      BY <3>1, <3>2 DEF TablesConsistent, TablesAgree, DecisionStamped
    <3>4. pc'[c] = SecondStep(call[c]) /\ stale'[c] = {}
      BY <2>2 DEF Read, ClientsTypeOK
    <3>5. ReadsFirst(call[c]) => SelectedBy(call[c], pc'[c]) \subseteq RunIds
      BY <3>1, <3>4, SelectedRuns DEF SecondStep
    <3>6. ReadsFirst(call[c]) =>
             \A r \in SelectedBy(call[c], pc'[c]) : seen'[c].runs[r] = runs[r]
      BY <3>1, <3>4, <3>5, SnapshotType
    <3>7. call[c].op \in {"annotate", "save_comparison"} =>
             \A r \in SelectedBy(call[c], pc'[c]) : Stored(r)
      BY <2>2, <3>1, <3>4 DEF Read, Refusal, SecondStep, SelectedBy, ReadSet
    <3>8. call[c].op = "restore" =>
             \A r \in SelectedBy(call[c], pc'[c]) : pc'[c] # "history" => ~Stored(r)'
      BY <3>1, <3>4 DEF SecondStep, SelectedBy, ReadSet, Stored
    <3>9. QED
      BY <3>1, <3>3, <3>4, <3>6, <3>7, <3>8 DEF ReadIsCurrent, ReadsFirst, Stored
  <2>6. CASE ReadHistory(c)
    <3>1. /\ pc[c] = "history" /\ call[c] \in Call /\ call[c].op = "restore"
          /\ call[c].run \in RunIds /\ pc'[c] = "begin"
          /\ \A step \in {"history", "begin"} : SelectedBy(call[c], step) = {call[c].run}
      BY <2>6, CallFields DEF ReadHistory, ClientsTypeOK, ReadSet, SelectedBy
    <3>2. /\ seen'[c].runs = seen[c].runs
          /\ seen'[c].history[call[c].run] = history[call[c].run]
          /\ call'[c] = call[c] /\ stale'[c] = stale[c] /\ UNCHANGED <<runs, history>>
      BY <2>6, <3>1 DEF ReadHistory, ClientsTypeOK, tables
    <3>3. QED
      BY <1>1, <3>1, <3>2 DEF ReadIsCurrent
  <2>7. CASE ReadRunB(c)
    <3>1. /\ pc[c] = "run_b" /\ call[c] \in Call /\ call[c].op = "save_comparison"
          /\ pc'[c] = "begin" /\ call'[c] = call[c] /\ UNCHANGED <<runs, history>>
      BY <2>7 DEF ReadRunB, ClientsTypeOK, tables
    <3>2. PICK a \in RunIds, b \in RunIds :
             a = call[c].comparison.run_a /\ b = call[c].comparison.run_b
      BY <3>1, CallFields DEF Comparison
    <3>3. SelectedBy(call[c], "run_b") = {a} /\ SelectedBy(call[c], "begin") = {a, b}
      BY <3>1, <3>2 DEF SelectedBy, ReadSet
    <3>4. /\ Stored(b) /\ seen'[c].runs = [seen[c].runs EXCEPT ![b] = runs[b]]
          /\ stale'[c] = stale[c] \ {b}
      BY <2>7, <3>2 DEF ReadRunB, ClientsTypeOK
    <3>5. seen[c].runs \in [RunIds -> Row \cup {None}]
      BY DEF ClientsTypeOK
    <3>6. \A r \in RunIds : seen'[c].runs[r] = IF r = b THEN runs[b] ELSE seen[c].runs[r]
      BY <3>4, <3>5
    <3>7. /\ seen[c].runs[a] # None
          /\ a \notin stale[c] => seen[c].runs[a] = runs[a]
      BY <1>1, <3>1, <3>3 DEF ReadIsCurrent, ReadsFirst
    <3>8. Stamped(runs[b].decision, runs[b].decision_at)
      BY <3>4 DEF TablesConsistent, TablesAgree, DecisionStamped
    <3>9. \A r \in {a, b} : seen'[c].runs[r] # None
                             /\ (r \notin stale'[c] => seen'[c].runs[r] = runs[r])
      BY <3>4, <3>6, <3>7 DEF Stored
    <3>10. \A r \in RunIds : seen'[c].runs[r] # None =>
              Stamped(seen'[c].runs[r].decision, seen'[c].runs[r].decision_at)
      BY <1>1, <3>6, <3>8 DEF ReadIsCurrent
    <3>11. QED
      BY <3>1, <3>3, <3>9, <3>10 DEF ReadIsCurrent
  <2>3. CASE BeginWrite(c)
    <3>1. /\ pc[c] = "begin" /\ pc'[c] = "commit" /\ call'[c] = call[c]
          /\ seen'[c] = seen[c] /\ stale'[c] = stale[c] /\ UNCHANGED <<runs, history>>
          /\ SelectedBy(call[c], "begin") = SelectedBy(call[c], "commit")
      BY <2>3 DEF BeginWrite, tables, ClientsTypeOK, SelectedBy
    <3>2. QED
      BY <1>1, <3>1 DEF ReadIsCurrent, Stored
  <2>4. CASE LockTimeout(c)
    <3>1. call'[c] = call[c] /\ pc'[c] = RetryStep(call[c]) /\ UNCHANGED <<runs, history>>
          /\ pc[c] = "begin"
      BY <2>4 DEF LockTimeout, ClientsTypeOK, tables
    <3>2. CASE call[c].op = "save_comparison"
      BY <1>1, <2>4, <3>1, <3>2 DEF LockTimeout, RetryStep, ReadIsCurrent, Stored
    <3>3. CASE call[c].op # "save_comparison"
      BY <2>4, <3>1, <3>3
      DEF LockTimeout, RetryStep, FirstStep, ReadIsCurrent, NothingSeen, ClientsTypeOK
    <3>4. QED
      BY <3>2, <3>3
  <2>5. QED
    BY <2>1, <2>2, <2>3, <2>4, <2>6, <2>7
<1>4. QED
  BY <1>2, <1>3 DEF ReadsAreCurrent, ReadIsCurrent

(* A commit makes outdated exactly the reads it overtakes. *)
LEMMA CommitReads ==
  ASSUME IInv, NEW c \in Clients, Commit(c)
  PROVE  ReadsAreCurrent'
<1> USE DEF IInv, TypeOK
<1>1. \A d \in Clients : ReadIsCurrent(d)
  BY DEF ReadsAreCurrent, ReadIsCurrent
<1>2. /\ pc[c] = "commit" /\ stale' = Outdated(c)
      /\ seen' = [seen EXCEPT ![c] = NothingSeen]
      /\ \/ pc' = [pc EXCEPT ![c] = "readback"] /\ call' = call
         \/ pc' = [pc EXCEPT ![c] = "idle"] /\ call' = [call EXCEPT ![c] = None]
  BY DEF Commit, CommitIngest, CommitRestore, CommitAnnotate, CommitBulkLabel,
         CommitBulkDecide, CommitPrune, CommitSaveComparison, CommitDeleteComparison,
         Committing, Committed, CommittedAndDone, End
<1>3. ReadIsCurrent(c)'
  BY <1>2, NoReadIsCurrent DEF ClientsTypeOK
<1>4. ASSUME NEW d \in Clients, d # c PROVE ReadIsCurrent(d)'
  <2>1. call'[d] = call[d] /\ pc'[d] = pc[d] /\ seen'[d] = seen[d]
    BY <1>2, <1>4 DEF ClientsTypeOK
  <2>2. ASSUME pc[d] \in {"history", "run_b", "begin", "commit"}, 
               NEW r \in SelectedBy(call[d], pc[d]) \ stale'[d], ReadsFirst(call[d])
        PROVE  r \notin stale[d] /\ runs'[r] = runs[r] /\ history'[r] = history[r]
    <3>1. pc[d] \in {"history", "run_b", "begin"}
      BY <1>2, <1>4, <2>2 DEF ClientsTypeOK
    <3>2. stale'[d] = stale[d] \cup (ChangedRuns \cap SelectedBy(call[d], pc[d]))
      BY <1>2, <1>4, <3>1 DEF Outdated
    <3>3. call[d] \in Call
      BY <3>1 DEF ClientsTypeOK
    <3>4. r \in RunIds
      BY <2>2, <3>3, SelectedRuns DEF ClientsTypeOK
    <3>5. QED
      BY <2>2, <3>2, <3>4 DEF ChangedRuns
  <2>3. QED
    BY <1>1, <2>1, <2>2, OtherReadStaysCurrent
<1>5. QED
  BY <1>3, <1>4 DEF ReadsAreCurrent, ReadIsCurrent

-----------------------------------------------------------------------------
(* The inductive invariant.                                                *)

(* Every way a call ends without a commit is a GiveUp. *)
LEMMA EndsAreGiveUps ==
  ASSUME TypeOK, NEW c \in Clients,
         \/ ReadAndReturn(c) \/ HistoryTooLong(c) \/ RunBMissing(c) \/ LockError(c)
         \/ AnnotateNothing(c) \/ RollBack(c) \/ ReadBack(c) \/ Crash(c)
  PROVE  \E outcome \in Outcomes : GiveUp(c, outcome)
BY DEF ReadAndReturn, Refusal, HistoryTooLong, RunBMissing, LockError, AnnotateNothing, RollBack,
       ReadBack, Crash, Outcomes

(* The empty library with idle clients satisfies the invariant. *)
LEMMA InitIInv == Init => IInv
<1> SUFFICES ASSUME Init PROVE IInv
  OBVIOUS
<1>1. TablesTypeOK /\ TablesConsistent
  BY DEF Init, TablesInit, TablesTypeOK, TablesConsistent, TablesAgree, Stored,
         RowsBelongToRuns, SpansMatchTrace, DecisionStamped, ComparisonsBelongToRuns
<1>2. ClientsTypeOK
  BY ClientAssumption DEF Init, ClientsTypeOK, Steps, Outcomes, NothingSeen
<1>3. ReadsAreCurrent
  BY DEF Init, ReadsAreCurrent, NothingSeen
<1>4. QED
  BY <1>1, <1>2, <1>3 DEF IInv, TypeOK

(* Every step keeps the invariant. *)
LEMMA NextIInv == IInv /\ [Next]_vars => IInv'
<1> SUFFICES ASSUME IInv, [Next]_vars PROVE IInv'
  OBVIOUS
<1>1. ASSUME NEW c \in Clients,
             Start(c) \/ Read(c) \/ ReadHistory(c) \/ ReadRunB(c) \/ BeginWrite(c) \/ LockTimeout(c)
      PROVE  IInv'
  <2>1. UNCHANGED tables
    BY <1>1 DEF Start, Read, ReadHistory, ReadRunB, BeginWrite, LockTimeout, tables
  <2>2. QED
    BY <1>1, <2>1, QuietTypes, QuietReads, UnchangedAgrees DEF IInv, TablesConsistent
<1>2. ASSUME NEW c \in Clients, NEW outcome \in Outcomes, GiveUp(c, outcome)
      PROVE  IInv'
  <2>1. UNCHANGED tables
    BY <1>2 DEF GiveUp, tables
  <2>2. QED
    BY <1>2, <2>1, GiveUpTypes, GiveUpReads, UnchangedAgrees DEF IInv, TablesConsistent
<1>3. ASSUME NEW c \in Clients, Commit(c)
      PROVE  IInv'
  BY <1>3, CommitKeepsTables, CommitReads DEF IInv
<1>4. ASSUME UNCHANGED <<tables, clientVars>>, now' \in Nat
      PROVE  IInv'
  <2>1. TypeOK'
    BY <1>4 DEF IInv, TypeOK, TablesTypeOK, ClientsTypeOK, tables, clientVars
  <2>2. ReadsAreCurrent'
    BY <1>4 DEF IInv, ReadsAreCurrent, Stored, tables, clientVars
  <2>3. QED
    BY <1>4, <2>1, <2>2, UnchangedAgrees DEF IInv, TablesConsistent
<1>5. Tick \/ UNCHANGED vars => UNCHANGED <<tables, clientVars>> /\ now' \in Nat
  BY DEF Tick, vars, tables, clientVars, IInv, TypeOK, TablesTypeOK
<1>6. QED
  BY <1>1, <1>2, <1>3, <1>4, <1>5, EndsAreGiveUps DEF Next, Step, IInv

(* Every reachable state satisfies the invariant. *)
THEOREM Invariance == Spec => []IInv
BY InitIInv, NextIInv, PTL DEF Spec

(* The store and its clients are type correct; the write lock has exactly  *)
(* one committing holder.                                                  *)
THEOREM TypeCorrect == Spec => []TypeOK
BY Invariance, PTL DEF IInv

(* In every interleaving no table refers to a run that is gone, spans      *)
(* match the stored trace, and decisions are stamped.                      *)
THEOREM TablesStayConsistent == Spec => []TablesConsistent
BY Invariance, PTL DEF IInv

(* A read is out of date only for runs in stale. *)
THEOREM ReadsStayCurrent == Spec => []ReadsAreCurrent
BY Invariance, PTL DEF IInv

-----------------------------------------------------------------------------
(* What a step may never do.                                               *)

(* Only commits change tables. *)
LEMMA StepCommitsOrIsQuiet ==
  ASSUME TypeOK, [Next]_vars
  PROVE  UNCHANGED tables \/ \E c \in Clients : Commit(c) /\ Commits(c)
<1> SUFFICES ASSUME ~ UNCHANGED tables
             PROVE  \E c \in Clients : Commit(c) /\ Commits(c)
  OBVIOUS
<1>1. \A c \in Clients : ~(\/ Start(c) \/ Read(c) \/ ReadHistory(c) \/ ReadRunB(c)
                           \/ BeginWrite(c) \/ LockTimeout(c))
  BY DEF Start, Read, ReadHistory, ReadRunB, BeginWrite, LockTimeout, tables
<1>2. \A c \in Clients : ~(\/ ReadAndReturn(c) \/ HistoryTooLong(c) \/ RunBMissing(c) \/ LockError(c)
                           \/ AnnotateNothing(c) \/ RollBack(c) \/ ReadBack(c) \/ Crash(c))
  BY DEF ReadAndReturn, HistoryTooLong, RunBMissing, LockError, AnnotateNothing, RollBack,
         ReadBack, Crash, GiveUp, tables
<1>3. ~Tick /\ ~ UNCHANGED vars
  BY DEF Tick, vars, tables
<1>4. PICK c \in Clients : Commit(c)
  BY <1>1, <1>2, <1>3 DEF Next, Step
<1>5. pc[c] = "commit"
  BY <1>4 DEF Commit, CommitIngest, CommitRestore, CommitAnnotate, CommitBulkLabel,
         CommitBulkDecide, CommitPrune, CommitSaveComparison, CommitDeleteComparison,
         Committing
<1>6. \/ pc' = [pc EXCEPT ![c] = "readback"]
      \/ pc' = [pc EXCEPT ![c] = "idle"]
  BY <1>4 DEF Commit, CommitIngest, CommitRestore, CommitAnnotate, CommitBulkLabel,
         CommitBulkDecide, CommitPrune, CommitSaveComparison, CommitDeleteComparison,
         Committed, CommittedAndDone, End
<1>7. pc'[c] # "commit"
  BY <1>5, <1>6 DEF TypeOK, ClientsTypeOK
<1>8. QED
  BY <1>4, <1>5, <1>7 DEF Commits

(* A commit leaves a history explained unless the read it rests on was     *)
(* outdated for that run.                                                  *)
LEMMA CommitExplains ==
  ASSUME IInv, NEW c \in Clients, Commit(c), NEW r \in RunIds,
         HistoryExplains(r), r \notin stale[c]
  PROVE  HistoryExplains(r)'
<1> USE DEF IInv, TypeOK, TablesConsistent
<1> DEFINE k == call[c]
<1>1. pc[c] = "commit" /\ k \in Call
  BY DEF Commit, Committing, CommitIngest, CommitRestore, CommitAnnotate, CommitBulkLabel,
         CommitBulkDecide, CommitPrune, CommitSaveComparison, CommitDeleteComparison,
         ClientsTypeOK
<1>2. ReadsFirst(k) /\ r \in ReadSet(k) =>
         /\ seen[c].runs[r] = runs[r]
         /\ k.op = "restore" /\ Stored(r) => seen[c].history[r] = history[r]
  BY <1>1, CommitsRestOnReads
<1>3. CASE CommitIngest(c)
  <2>1. k.run \in RunIds /\ k.trace \in Traces /\ Ingested(k.run, k.trace)
    BY <1>1, <1>3, CallFields DEF CommitIngest, Committing
  <2>2. QED
    BY <2>1, IngestedExplains
<1>4. CASE CommitRestore(c)
  <2> DEFINE review == SelectedReview(k, seen[c])
  <2>1. k.op = "restore" /\ k.run \in RunIds /\ k.trace \in Traces
        /\ k.review \in Bundled /\ Restored(k.run, k.trace, review)
    BY <1>1, <1>4, CallFields DEF CommitRestore, Committing
  <2>2. review \in Review
    BY <1>1, <2>1, SelectedReviewType DEF ClientsTypeOK, ReadsAreCurrent
  <2>3. ASSUME r = k.run PROVE Explains(review.decision_history, review.decision)
    <3>1. CASE k.policy = "keep-local" /\ seen[c].runs[k.run] # None
      <4>1. seen[c].runs[r] = runs[r] /\ seen[c].history[r] = history[r]
        BY <1>2, <2>1, <2>3, <3>1 DEF ReadsFirst, ReadSet, Stored
      <4>2. QED
        BY <2>3, <3>1, <4>1 DEF SelectedReview, HistoryExplains, Stored
    <3>2. CASE ~(k.policy = "keep-local" /\ seen[c].runs[k.run] # None)
      BY <2>1, <3>2, BundledExplains DEF SelectedReview
    <3>3. QED
      BY <3>1, <3>2
  <2> HIDE DEF review
  <2>4. QED
    BY <2>1, <2>2, <2>3, RestoredExplains
<1>5. CASE CommitAnnotate(c)
  <2>1. /\ k.op = "annotate" /\ k.run \in RunIds /\ Stored(k.run)
        /\ k.label \in Labels \cup {None} /\ k.decision \in Decisions \cup {None}
        /\ Annotated(k.run, k.label, k.decision, seen[c].runs[k.run].decision)
    BY <1>1, <1>5, CallFields DEF CommitAnnotate, Committing
  <2>2. r = k.run => seen[c].runs[k.run].decision = runs[k.run].decision
    BY <1>2, <2>1 DEF ReadsFirst, ReadSet
  <2>3. QED
    BY <2>1, <2>2, AnnotatedExplains
<1>6. CASE CommitBulkLabel(c)
  <2>1. k.runs \in SUBSET RunIds /\ k.label \in Labels /\ BulkLabeled(k.runs, k.label)
    BY <1>1, <1>6, CallFields DEF CommitBulkLabel, Committing
  <2>2. QED
    BY <2>1, BulkLabeledExplains
<1>7. CASE CommitBulkDecide(c)
  <2>1. /\ k.runs \in SUBSET RunIds /\ k.decision \in Decisions
        /\ k.op = "bulk_decide" /\ BulkDecided(k.runs, k.decision, seen[c].runs)
    BY <1>1, <1>7, CallFields DEF CommitBulkDecide, Committing
  <2>2. r \in k.runs => seen[c].runs[r] = runs[r]
    BY <1>2, <2>1 DEF ReadsFirst, ReadSet
  <2>3. QED
    BY <2>1, <2>2, BulkDecidedExplains
<1>8. CASE CommitPrune(c)
  <2>1. PICK gone \in SUBSET RunIds : Deleted(gone)
    BY <1>1, <1>8, CallFields DEF CommitPrune, Committing, Eligible
  <2>2. QED
    BY <2>1, DeletedExplains
<1>9. CASE CommitSaveComparison(c) \/ CommitDeleteComparison(c)
  BY <1>9, UnchangedExplains
  DEF CommitSaveComparison, CommitDeleteComparison, ComparisonSaved, ComparisonDeleted
<1>10. QED
  BY <1>3, <1>4, <1>5, <1>6, <1>7, <1>8, <1>9 DEF Commit

(* Histories break only in a race: storage.py:1288 reads the decision that *)
(* storage.py:1309 records, and only a commit in between can make that     *)
(* record wrong.                                                           *)
THEOREM HistoriesBreakOnlyInRaces == Spec => HistoryBreaksOnlyInARace
<1>1. IInv /\ [Next]_vars =>
        [\A r \in RunIds : HistoryExplains(r) /\ ~HistoryExplains(r)' =>
            \E c \in Clients : Commits(c) /\ r \in stale[c]]_vars
  <2> SUFFICES ASSUME IInv, [Next]_vars, NEW r \in RunIds,
                      HistoryExplains(r), ~HistoryExplains(r)'
               PROVE  \E c \in Clients : Commits(c) /\ r \in stale[c]
    OBVIOUS
  <2>1. ~ UNCHANGED tables
    BY UnchangedExplains DEF tables
  <2>2. PICK c \in Clients : Commit(c) /\ Commits(c)
    BY <2>1, StepCommitsOrIsQuiet DEF IInv
  <2>3. QED
    BY <2>2, CommitExplains
<1>2. QED
  BY <1>1, Invariance, PTL DEF Spec, HistoryBreaksOnlyInARace

(* A commit that removes a run is a prune, of a run that was expired or    *)
(* whose row changed since the prune's SELECT.                             *)
LEMMA CommitRemovesExpired ==
  ASSUME IInv, NEW c \in Clients, Commit(c), NEW r \in RunIds, Stored(r), ~Stored(r)'
  PROVE  /\ call[c].op = "prune"
         /\ r \in stale[c] \/ Expired(runs[r], call[c].cutoff, call[c].keep_labeled)
<1> USE DEF IInv, TypeOK
<1> DEFINE k == call[c]
<1>1. pc[c] = "commit" /\ k \in Call
  BY DEF Commit, Committing, CommitIngest, CommitRestore, CommitAnnotate, CommitBulkLabel,
         CommitBulkDecide, CommitPrune, CommitSaveComparison, CommitDeleteComparison,
         ClientsTypeOK
<1>2. TablesTypeOK' /\ runs[r] \in Row
  BY CommitKeepsTables DEF TablesTypeOK, Stored
<1>3. ~CommitIngest(c)
  BY <1>1, <1>2, UpsertedIsRow, RowIsNotNone, CallFields
  DEF CommitIngest, Committing, Ingested, Stored, TablesTypeOK
<1>4. ~CommitRestore(c)
  <2> SUFFICES ASSUME CommitRestore(c) PROVE FALSE
    OBVIOUS
  <2>1. /\ k.op = "restore" /\ k.run \in RunIds /\ k.trace \in Traces
        /\ Restored(k.run, k.trace, SelectedReview(k, seen[c]))
    BY <1>1, CallFields DEF CommitRestore, Committing
  <2>2. SelectedReview(k, seen[c]) \in Review
    BY <1>1, <2>1, SelectedReviewType DEF ClientsTypeOK, ReadsAreCurrent
  <2>3. Reviewed(Upserted(k.run, k.trace), SelectedReview(k, seen[c])) \in Row
    BY <2>1, <2>2, UpsertedIsRow, ReviewedIsRow
  <2>4. runs'[r] \in {runs[r], Reviewed(Upserted(k.run, k.trace), SelectedReview(k, seen[c]))}
    BY <2>1 DEF Restored, TablesTypeOK
  <2>5. QED
    BY <1>2, <2>3, <2>4, RowIsNotNone DEF Stored
<1>5. ~CommitAnnotate(c)
  <2> SUFFICES ASSUME CommitAnnotate(c) PROVE FALSE
    OBVIOUS
  <2>1. k.op = "annotate" /\ k.run \in RunIds
        /\ k.label \in Labels \cup {None} /\ k.decision \in Decisions \cup {None}
    BY <1>1, CallFields DEF CommitAnnotate, Committing
  <2>2. runs' = [runs EXCEPT ![k.run] = Annotate(runs[k.run], k.label, k.decision)]
    BY DEF CommitAnnotate, Annotated
  <2>3. r # k.run
    <3>1. SUFFICES ASSUME r = k.run PROVE FALSE
      OBVIOUS
    <3>2. Annotate(runs[r], k.label, k.decision) \in Row
      BY <1>2, <2>1, AnnotateIsRow
    <3>3. runs'[r] = Annotate(runs[r], k.label, k.decision)
      BY <2>2, <3>1 DEF TablesTypeOK
    <3>4. QED
      BY <3>2, <3>3, RowIsNotNone DEF Stored
  <2>4. QED
    BY <2>1, <2>2, <2>3 DEF Stored, TablesTypeOK
<1>6. ~CommitBulkLabel(c)
  BY <1>1, <1>2, RowIsNotNone, CallFields
  DEF CommitBulkLabel, Committing, BulkLabeled, Stored, Row
<1>7. ~CommitBulkDecide(c)
  BY <1>1, <1>2, DecidedIsRow, RowIsNotNone, CallFields
  DEF CommitBulkDecide, Committing, BulkDecided, Stored
<1>8. ~CommitSaveComparison(c) /\ ~CommitDeleteComparison(c)
  BY DEF CommitSaveComparison, CommitDeleteComparison, ComparisonSaved, ComparisonDeleted,
         Stored
<1>9. CommitPrune(c)
  BY <1>3, <1>4, <1>5, <1>6, <1>7, <1>8 DEF Commit
<1>10. k.op = "prune" /\ r \in Eligible(k, seen[c].runs)
  BY <1>9 DEF CommitPrune, Committing, Deleted, Stored
<1>11. r \notin stale[c] => seen[c].runs[r] = runs[r]
  BY <1>1, <1>10, CommitsRestOnReads DEF ReadsFirst, ReadSet, Eligible
<1>12. QED
  BY <1>10, <1>11 DEF Eligible

(* The library loses a run only to a prune whose policy covered the run,   *)
(* or to a prune that another client's commit overtook (storage.py:540).   *)
THEOREM RunsGoOnlyExpired == Spec => OnlyExpiredRunsGo
<1>1. IInv /\ [Next]_vars =>
        [\A r \in RunIds : Stored(r) /\ ~Stored(r)' =>
            \E c \in Clients :
               /\ Commits(c) /\ call[c].op = "prune"
               /\ \/ r \in stale[c]
                  \/ Expired(runs[r], call[c].cutoff, call[c].keep_labeled)]_vars
  <2> SUFFICES ASSUME IInv, [Next]_vars, NEW r \in RunIds, Stored(r), ~Stored(r)'
               PROVE  \E c \in Clients :
                         /\ Commits(c) /\ call[c].op = "prune"
                         /\ \/ r \in stale[c]
                            \/ Expired(runs[r], call[c].cutoff, call[c].keep_labeled)
    OBVIOUS
  <2>1. ~ UNCHANGED tables
    BY DEF tables, Stored
  <2>2. PICK c \in Clients : Commit(c) /\ Commits(c)
    BY <2>1, StepCommitsOrIsQuiet DEF IInv
  <2>3. QED
    BY <2>2, CommitRemovesExpired
<1>2. QED
  BY <1>1, Invariance, PTL DEF Spec, OnlyExpiredRunsGo

(* A commit changes the review of a stored run only if it is a review      *)
(* operation, a use-bundle restore, or an overtaken keep-local restore.    *)
LEMMA CommitReviews ==
  ASSUME IInv, NEW c \in Clients, Commit(c), NEW r \in RunIds,
         Stored(r), Stored(r)', ReviewOf(r)' # ReviewOf(r)
  PROVE  \/ call[c].op = "annotate" /\ call[c].run = r
         \/ call[c].op \in {"bulk_label", "bulk_decide"} /\ r \in call[c].runs
         \/ /\ call[c].op = "restore" /\ call[c].run = r
            /\ call[c].policy = "keep-local" => r \in stale[c]
<1> USE DEF IInv, TypeOK
<1> DEFINE k == call[c]
<1>1. pc[c] = "commit" /\ k \in Call /\ runs[r] \in Row
  BY DEF Commit, Committing, CommitIngest, CommitRestore, CommitAnnotate, CommitBulkLabel,
         CommitBulkDecide, CommitPrune, CommitSaveComparison, CommitDeleteComparison,
         ClientsTypeOK, TablesTypeOK, Stored
<1>2. CASE CommitIngest(c)
  <2>1. Ingested(k.run, k.trace) /\ k.run \in RunIds /\ k.trace \in Traces
    BY <1>1, <1>2, CallFields DEF CommitIngest, Committing
  <2>2. r = k.run => runs'[r] = [runs[r] EXCEPT !.trace = k.trace, !.ingested_at = now]
    BY <2>1 DEF Ingested, Upserted, TablesTypeOK
  <2>3. r # k.run => runs'[r] = runs[r]
    BY <2>1 DEF Ingested, TablesTypeOK
  <2>4. /\ runs'[r].label = runs[r].label
        /\ runs'[r].decision = runs[r].decision
        /\ runs'[r].decision_at = runs[r].decision_at
    BY <1>1, <2>2, <2>3 DEF Row
  <2>5. history'[r] = history[r]
    BY <2>1 DEF Ingested
  <2>6. QED
    BY <2>4, <2>5 DEF ReviewOf
<1>3. CASE CommitRestore(c)
  <2> DEFINE review == SelectedReview(k, seen[c])
  <2>1. /\ k.op = "restore" /\ k.run \in RunIds /\ k.trace \in Traces
        /\ Restored(k.run, k.trace, review)
    BY <1>1, <1>3, CallFields DEF CommitRestore, Committing
  <2>2. r = k.run
    BY <2>1 DEF Restored, ReviewOf, TablesTypeOK
  <2>3. ASSUME k.policy = "keep-local", r \notin stale[c] PROVE FALSE
    <3>1. seen[c].runs[r] = runs[r] /\ seen[c].history[r] = history[r]
      BY <1>1, <2>1, <2>2, <2>3, CommitsRestOnReads DEF ReadsFirst, ReadSet
    <3>2. review = ReviewOf(r)
      BY <2>2, <2>3, <3>1 DEF SelectedReview, ReviewOf, Stored
    <3>3. /\ runs'[r] = Reviewed(Upserted(r, k.trace), review)
          /\ history'[r] = review.decision_history
      BY <2>1, <2>2 DEF Restored, TablesTypeOK
    <3>4. Upserted(r, k.trace) \in Row
      BY <2>1, UpsertedIsRow
    <3>5. /\ runs'[r].label = runs[r].label
          /\ runs'[r].decision = runs[r].decision
          /\ runs'[r].decision_at = runs[r].decision_at
          /\ history'[r] = history[r]
      BY <3>2, <3>3, <3>4 DEF Reviewed, Row, ReviewOf
    <3>6. QED
      BY <3>5 DEF ReviewOf
  <2>4. QED
    BY <2>1, <2>2, <2>3
<1>4. CASE CommitAnnotate(c)
  BY <1>1, <1>4, CallFields
  DEF CommitAnnotate, Committing, Annotated, ReviewOf, TablesTypeOK
<1>5. CASE CommitBulkLabel(c)
  BY <1>1, <1>5, CallFields
  DEF CommitBulkLabel, Committing, BulkLabeled, ReviewOf, TablesTypeOK
<1>6. CASE CommitBulkDecide(c)
  BY <1>1, <1>6, CallFields
  DEF CommitBulkDecide, Committing, BulkDecided, Changing, ReviewOf, TablesTypeOK
<1>7. CASE CommitPrune(c)
  BY <1>7 DEF CommitPrune, Deleted, ReviewOf, Stored
<1>8. CASE CommitSaveComparison(c) \/ CommitDeleteComparison(c)
  BY <1>8 DEF CommitSaveComparison, CommitDeleteComparison, ComparisonSaved,
              ComparisonDeleted, ReviewOf
<1>9. QED
  BY <1>2, <1>3, <1>4, <1>5, <1>6, <1>7, <1>8 DEF Commit

(* Reviews stay local (README.md:112): ingests, prunes and comparisons     *)
(* never touch the review of a run that stays, and a keep-local restore    *)
(* only when it is overtaken.                                              *)
THEOREM ReviewsStayLocal == Spec => ReviewIsLocal
<1>1. IInv /\ [Next]_vars =>
        [\A r \in RunIds : Stored(r) /\ Stored(r)' /\ ReviewOf(r)' # ReviewOf(r) =>
            \E c \in Clients :
               /\ Commits(c)
               /\ \/ call[c].op = "annotate" /\ call[c].run = r
                  \/ call[c].op \in {"bulk_label", "bulk_decide"} /\ r \in call[c].runs
                  \/ /\ call[c].op = "restore" /\ call[c].run = r
                     /\ call[c].policy = "keep-local" => r \in stale[c]]_vars
  <2> SUFFICES ASSUME IInv, [Next]_vars, NEW r \in RunIds,
                      Stored(r), Stored(r)', ReviewOf(r)' # ReviewOf(r)
               PROVE  \E c \in Clients :
                         /\ Commits(c)
                         /\ \/ call[c].op = "annotate" /\ call[c].run = r
                            \/ call[c].op \in {"bulk_label", "bulk_decide"}
                                 /\ r \in call[c].runs
                            \/ /\ call[c].op = "restore" /\ call[c].run = r
                               /\ call[c].policy = "keep-local" => r \in stale[c]
    OBVIOUS
  <2>1. ~ UNCHANGED tables
    BY DEF tables, ReviewOf
  <2>2. PICK c \in Clients : Commit(c) /\ Commits(c)
    BY <2>1, StepCommitsOrIsQuiet DEF IInv
  <2>3. QED
    BY <2>2, CommitReviews
<1>2. QED
  BY <1>1, Invariance, PTL DEF Spec, ReviewIsLocal
(* A commit that drops a comparison deletes it or a run of it.             *)
LEMMA CommitDropsComparison ==
  ASSUME IInv, NEW c \in Clients, Commit(c), NEW x \in comparisons \ comparisons'
  PROVE  \/ ~Stored(x.run_a)' \/ ~Stored(x.run_b)'
         \/ call[c].op = "delete_comparison" /\ call[c].comparison_id = x.comparison_id
<1>1. x.run_a \in RunIds /\ x.run_b \in RunIds
  BY DEF IInv, TypeOK, TablesTypeOK, Comparison
<1>2. CommitPrune(c) \/ CommitDeleteComparison(c)
  BY DEF Commit, CommitIngest, Ingested, CommitRestore, Restored, CommitAnnotate, Annotated,
         CommitBulkLabel, BulkLabeled, CommitBulkDecide, BulkDecided,
         CommitSaveComparison, ComparisonSaved
<1>3. CASE CommitPrune(c)
  <2>1. x.run_a \in Eligible(call[c], seen[c].runs) \/ x.run_b \in Eligible(call[c], seen[c].runs)
    BY <1>3 DEF CommitPrune, Deleted
  <2>2. QED
    BY <1>1, <1>3, <2>1 DEF CommitPrune, Deleted, Stored
<1>4. CASE CommitDeleteComparison(c)
  BY <1>4 DEF CommitDeleteComparison, Committing, ComparisonDeleted
<1>5. QED
  BY <1>2, <1>3, <1>4

(* Comparisons outlive everything but their runs and their own deletion:   *)
(* the upsert of storage.py:369 and a restore keep the row they refer to.  *)
THEOREM ComparisonsOutliveWrites == Spec => ComparisonsStay
<1>1. IInv /\ [Next]_vars =>
        [\A x \in comparisons \ comparisons' :
            \/ ~Stored(x.run_a)' \/ ~Stored(x.run_b)'
            \/ \E c \in Clients : /\ Commits(c) /\ call[c].op = "delete_comparison"
                                  /\ call[c].comparison_id = x.comparison_id]_vars
  <2> SUFFICES ASSUME IInv, [Next]_vars, NEW x \in comparisons \ comparisons'
               PROVE  \/ ~Stored(x.run_a)' \/ ~Stored(x.run_b)'
                      \/ \E c \in Clients :
                            /\ Commits(c) /\ call[c].op = "delete_comparison"
                            /\ call[c].comparison_id = x.comparison_id
    OBVIOUS
  <2>1. ~ UNCHANGED tables
    BY DEF tables
  <2>2. PICK c \in Clients : Commit(c) /\ Commits(c)
    BY <2>1, StepCommitsOrIsQuiet DEF IInv
  <2>3. QED
    BY <2>2, CommitDropsComparison
<1>2. QED
  BY <1>1, Invariance, PTL DEF Spec, ComparisonsStay

(* An outcome of a call is an IntegrityError only by a roll back.          *)
LEMMA IntegrityIsRollBack ==
  ASSUME TypeOK, [Next]_vars, NEW c \in Clients,
         result'[c] = "integrity", result[c] # "integrity"
  PROVE  RollBack(c)
<1> USE DEF TypeOK, ClientsTypeOK
<1>1. ~Tick /\ ~ UNCHANGED vars
  BY DEF Tick, vars, clientVars
<1>2. PICK d \in Clients : Start(d) \/ Step(d) \/ Crash(d)
  BY <1>1 DEF Next
<1>3. /\ ~Read(d) /\ ~ReadHistory(d) /\ ~ReadRunB(d) /\ ~BeginWrite(d) /\ ~LockTimeout(d)
      /\ ~Start(d) /\ ~Crash(d) /\ ~HistoryTooLong(d) /\ ~RunBMissing(d) /\ ~LockError(d)
      /\ ~AnnotateNothing(d) /\ ~ReadBack(d) /\ ~ReadAndReturn(d)
  BY DEF Read, ReadHistory, ReadRunB, BeginWrite, LockTimeout, Start, Crash, HistoryTooLong,
         RunBMissing, LockError,
         AnnotateNothing, ReadBack, ReadAndReturn, Refusal, GiveUp, End
<1>4. ~Commit(d)
  BY DEF Commit, CommitIngest, CommitRestore, CommitAnnotate, CommitBulkLabel,
         CommitBulkDecide, CommitPrune, CommitSaveComparison, CommitDeleteComparison,
         Committed, CommittedAndDone, End
<1>5. RollBack(d)
  BY <1>2, <1>3, <1>4 DEF Step
<1>6. c = d
  BY <1>5 DEF RollBack, GiveUp, End
<1>7. QED
  BY <1>5, <1>6

(* IntegrityErrors need a run that was found and is gone (storage.py:1309, *)
(* storage.py:1376, storage.py:1423): what a call inserts refers to runs   *)
(* it has found itself, before its transaction, and only a prune removes   *)
(* one.                                                                    *)
THEOREM IntegrityErrorsNeedRaces == Spec => IntegrityErrorsAreRaces
<1>1. IInv /\ [Next]_vars =>
        [\A c \in Clients : result'[c] = "integrity" /\ result[c] # "integrity" =>
            \E r \in stale[c] : seen[c].runs[r] # None /\ ~Stored(r)]_vars
  <2> SUFFICES ASSUME IInv, [Next]_vars, NEW c \in Clients,
                      result'[c] = "integrity", result[c] # "integrity"
               PROVE  \E r \in stale[c] : seen[c].runs[r] # None /\ ~Stored(r)
    OBVIOUS
  <2> DEFINE k == call[c]
  <2>1. ForeignKeyFails(c)
    BY IntegrityIsRollBack DEF IInv, RollBack
  <2>2. pc[c] = "commit" /\ k \in Call
    BY <2>1 DEF ForeignKeyFails, Committing, IInv, TypeOK, ClientsTypeOK
  <2>3. PICK r \in ReadSet(k) : ~Stored(r) /\ seen[c].runs[r] # None /\ ReadsFirst(k)
    <3>1. CASE k.op \in {"annotate", "save_comparison"}
      <4>1. ReadsFirst(k) /\ \A r \in ReadSet(k) : seen[c].runs[r] # None
        BY <2>2, <3>1, CommitsRestOnReads DEF IInv, ReadsFirst
      <4>2. \E r \in ReadSet(k) : ~Stored(r)
        BY <2>1, <3>1 DEF ForeignKeyFails, Committing, ReadSet
      <4>3. QED
        BY <4>1, <4>2
    <3>2. CASE k.op = "bulk_decide"
      BY <2>1, <2>2, <3>2 DEF ForeignKeyFails, Committing, ReadSet, ReadsFirst, Changing
    <3>3. QED
      BY <2>1, <3>1, <3>2 DEF ForeignKeyFails, Committing
  <2>4. r \in stale[c]
    BY <2>2, <2>3, CommitsRestOnReads DEF IInv, Stored
  <2>5. QED
    BY <2>3, <2>4
<1>2. QED
  BY <1>1, Invariance, PTL DEF Spec, IntegrityErrorsAreRaces

-----------------------------------------------------------------------------
(* Refinement: the store as it runs implements the store as documented.    *)
(* Commits are steps of AtomicStore unless the read they rest on was       *)
(* overtaken.                                                              *)

Saving(c) == call[c] # None /\ call[c].op = "save_comparison"

(* IDs of comparisons are fresh until they are stored. *)
IdsAreFresh ==
  /\ \A c, d \in Clients :
        c # d /\ Saving(c) /\ Saving(d) =>
          call[c].comparison.comparison_id # call[d].comparison.comparison_id
  /\ \A c \in Clients, x \in comparisons :
        Saving(c) /\ pc[c] # "readback" =>
          call[c].comparison.comparison_id # x.comparison_id

(* The cutoff of a prune is an age before some moment that has been.       *)
CutoffsAreAges ==
  \A c \in Clients :
     call[c] # None /\ call[c].op = "prune" =>
       \E moment \in 0 .. now, age \in Ages : call[c].cutoff = moment - age

(* A review that a restore is about to keep fits a review context.         *)
KeptReviewsFit ==
  \A c \in Clients :
     /\ pc[c] = "idle" => seen[c] = NothingSeen
     /\ pc[c] \in {"begin", "commit"} /\ call[c].op = "restore"
        /\ seen[c].runs[call[c].run] # None =>
          Len(seen[c].history[call[c].run]) <= HistoryLimit

CallsAreOffered == \A c \in Clients : call[c] # None => call[c].op \in Ops

CallInv == IdsAreFresh /\ CutoffsAreAges /\ KeptReviewsFit /\ CallsAreOffered

-----------------------------------------------------------------------------
LEMMA InitCallInv == Init => CallInv
BY DEF Init, NothingSeen, CallInv, IdsAreFresh, CutoffsAreAges, KeptReviewsFit, CallsAreOffered,
       Saving

(* A call begins with an ID nobody uses and a cutoff before the present.   *)
LEMMA StartKeepsCalls ==
  ASSUME IInv, CallInv, NEW c \in Clients, Start(c)
  PROVE  CallInv'
<1>1. PICK k \in Calls : /\ call' = [call EXCEPT ![c] = k]
                         /\ pc' = [pc EXCEPT ![c] = FirstStep(k)]
  BY DEF Start
<1>2. /\ pc[c] = "idle" /\ call[c] = None /\ k \in Call /\ k.op \in Ops /\ Possible(k)
      /\ UNCHANGED <<tables, now, seen>> /\ now \in Nat
  BY CallsAreCalls DEF Start, Calls, IInv, TypeOK, ClientsTypeOK, TablesTypeOK
<1>3. /\ call'[c] = k /\ pc'[c] = FirstStep(k)
      /\ \A d \in Clients : d # c => call'[d] = call[d] /\ pc'[d] = pc[d]
  BY <1>1 DEF IInv, TypeOK, ClientsTypeOK
<1>4. IdsAreFresh'
  <2>1. k.op = "save_comparison" =>
          /\ \A x \in comparisons : x.comparison_id # k.comparison.comparison_id
          /\ \A d \in Clients : Saving(d) =>
                call[d].comparison.comparison_id # k.comparison.comparison_id
    BY <1>2 DEF Possible, UsedIds, Saving
  <2>2. QED
    BY <1>2, <1>3, <2>1 DEF CallInv, IdsAreFresh, Saving, tables
<1>5. CutoffsAreAges'
  <2>1. k.op = "prune" => \E age \in Ages : k.cutoff = now - age
    BY <1>1 DEF Calls, IngestCall, RestoreCall, AnnotateCall, LabelCall, DecideCall, SaveCall,
                DeleteCall
  <2>2. QED
    BY <1>2, <1>3, <2>1 DEF CallInv, CutoffsAreAges
<1>6. KeptReviewsFit'
  <2>1. k.op = "restore" => seen[c].runs[k.run] = None
    BY <1>2, CallFields DEF CallInv, KeptReviewsFit, NothingSeen
  <2>2. pc'[c] # "idle"
    BY <1>2, <1>3, FirstSteps
  <2>3. QED
    BY <1>2, <1>3, <2>1, <2>2 DEF CallInv, KeptReviewsFit
<1>7. CallsAreOffered'
  BY <1>2, <1>3 DEF CallInv, CallsAreOffered
<1>8. QED
  BY <1>4, <1>5, <1>6, <1>7 DEF CallInv

(* Every other step of a client leaves a call as it is or ends it. *)
LEMMA StepKeepsCalls ==
  ASSUME IInv, CallInv, NEW c \in Clients, Step(c) \/ Crash(c)
  PROVE  CallInv'
<1> DEFINE Ends == /\ pc'[c] = "idle" /\ call'[c] = None /\ seen'[c] = NothingSeen
           k == call[c]
<1>1. /\ \A d \in Clients : d # c => /\ call'[d] = call[d] /\ pc'[d] = pc[d]
                                     /\ seen'[d] = seen[d]
      /\ Ends \/ call'[c] = k
  BY DEF Step, Crash, Commit, Read, ReadAndReturn, ReadHistory, ReadRunB, HistoryTooLong,
         RunBMissing, BeginWrite,
         LockTimeout, LockError, AnnotateNothing, RollBack, ReadBack, CommitIngest,
         CommitRestore, CommitAnnotate, CommitBulkLabel, CommitBulkDecide, CommitPrune,
         CommitSaveComparison, CommitDeleteComparison, Committed, CommittedAndDone, GiveUp,
         End, IInv, TypeOK, ClientsTypeOK
<1>2. k # None /\ k \in Call /\ pc[c] # "idle" /\ now \in Nat /\ now' = now
  <2>1. pc[c] # "idle"
    BY DEF Step, Crash, Commit, Read, ReadAndReturn, ReadHistory, ReadRunB, HistoryTooLong,
           RunBMissing, BeginWrite,
           LockTimeout, LockError, AnnotateNothing, RollBack, ForeignKeyFails, ReadBack,
           CommitIngest, CommitRestore, CommitAnnotate, CommitBulkLabel, CommitBulkDecide,
           CommitPrune, CommitSaveComparison, CommitDeleteComparison, Committing
  <2>2. now' = now
    BY DEF Step, Crash, Commit, Read, ReadAndReturn, ReadHistory, ReadRunB, HistoryTooLong,
           RunBMissing, BeginWrite,
           LockTimeout, LockError, AnnotateNothing, RollBack, ReadBack, CommitIngest,
           CommitRestore, CommitAnnotate, CommitBulkLabel, CommitBulkDecide, CommitPrune,
           CommitSaveComparison, CommitDeleteComparison, Committed, CommittedAndDone, GiveUp
  <2>3. QED
    BY <2>1, <2>2 DEF IInv, TypeOK, ClientsTypeOK, TablesTypeOK
<1>3. CASE Ends /\ comparisons' \subseteq comparisons
  BY <1>1, <1>2, <1>3
  DEF CallInv, IdsAreFresh, CutoffsAreAges, KeptReviewsFit, CallsAreOffered, Saving, NothingSeen
<1>4. CASE call'[c] = k /\ pc'[c] = "readback" /\ k.op # "save_comparison"
           /\ comparisons' \subseteq comparisons
  BY <1>1, <1>2, <1>4
  DEF CallInv, IdsAreFresh, CutoffsAreAges, KeptReviewsFit, CallsAreOffered, Saving
<1>5. CASE CommitSaveComparison(c)
  <2>1. /\ k.op = "save_comparison" /\ comparisons' = comparisons \cup {k.comparison}
        /\ call'[c] = k /\ pc'[c] = "readback"
    BY <1>5 DEF CommitSaveComparison, Committing, ComparisonSaved, Committed, IInv, TypeOK,
               ClientsTypeOK
  <2>2. IdsAreFresh'
    BY <1>1, <1>2, <2>1 DEF CallInv, IdsAreFresh, Saving
  <2>3. QED
    BY <1>1, <1>2, <2>1, <2>2 DEF CallInv, CutoffsAreAges, KeptReviewsFit, CallsAreOffered
<1>6. CASE call'[c] = k /\ pc[c] # "readback" /\ pc'[c] \notin {"idle", "begin", "commit"}
           /\ comparisons' = comparisons
  BY <1>1, <1>2, <1>6
  DEF CallInv, IdsAreFresh, CutoffsAreAges, KeptReviewsFit, CallsAreOffered, Saving
<1>7. ASSUME call'[c] = k, pc[c] # "readback", pc'[c] \in {"begin", "commit"},
             comparisons' = comparisons,
             k.op = "restore" /\ seen'[c].runs[k.run] # None =>
                Len(seen'[c].history[k.run]) <= HistoryLimit
      PROVE  CallInv'
  BY <1>1, <1>2, <1>7
  DEF CallInv, IdsAreFresh, CutoffsAreAges, KeptReviewsFit, CallsAreOffered, Saving
<1>8. ASSUME NEW outcome, GiveUp(c, outcome) PROVE Ends /\ comparisons' = comparisons
  BY <1>8 DEF GiveUp, End, tables, IInv, TypeOK, ClientsTypeOK
<1>9. CASE Read(c)
  <2>1. /\ pc'[c] = SecondStep(k) /\ seen'[c] = Snapshot(k) /\ call'[c] = k
        /\ comparisons' = comparisons /\ pc[c] = "read"
    BY <1>9 DEF Read, tables, IInv, TypeOK, ClientsTypeOK
  <2>2. CASE k.op = "restore" /\ Stored(k.run)
    BY <1>6, <2>1, <2>2 DEF SecondStep
  <2>3. CASE k.op = "restore" /\ ~Stored(k.run)
    <3>1. SecondStep(k) = "begin" /\ SelectedBy(k, SecondStep(k)) = {k.run} /\ k.run \in RunIds
      BY <1>2, <2>3, CallFields DEF SecondStep, SelectedBy, ReadSet
    <3>2. seen'[c].runs[k.run] = None
      BY <2>1, <2>3, <3>1 DEF Snapshot, Stored
    <3>3. QED
      BY <1>7, <2>1, <3>1, <3>2
  <2>4. CASE k.op # "restore"
    BY <1>6, <1>7, <2>1, <2>4 DEF SecondStep
  <2>5. QED
    BY <2>2, <2>3, <2>4
<1>10. CASE ReadHistory(c)
  <2>1. /\ pc'[c] = "begin" /\ call'[c] = k /\ comparisons' = comparisons /\ pc[c] = "history"
        /\ Len(history[k.run]) <= HistoryLimit
        /\ seen' = [seen EXCEPT ![c].history[k.run] = history[k.run]]
        /\ k.op = "restore"
    BY <1>10 DEF ReadHistory, tables, IInv, TypeOK, ClientsTypeOK
  <2>2. seen'[c].history[k.run] = history[k.run]
    BY <1>2, <2>1, CallFields DEF IInv, TypeOK, ClientsTypeOK
  <2>3. QED
    BY <1>7, <2>1, <2>2
<1>11. CASE BeginWrite(c)
  <2>1. /\ pc[c] = "begin" /\ pc'[c] = "commit" /\ call'[c] = k /\ seen'[c] = seen[c]
        /\ comparisons' = comparisons
    BY <1>11 DEF BeginWrite, tables, IInv, TypeOK, ClientsTypeOK
  <2>2. QED
    BY <1>7, <2>1 DEF CallInv, KeptReviewsFit
<1>12. CASE LockTimeout(c)
  <2>1. /\ pc[c] = "begin" /\ pc'[c] = RetryStep(k) /\ call'[c] = k
        /\ k.op # "save_comparison" => seen'[c] = NothingSeen
        /\ comparisons' = comparisons
    BY <1>12 DEF LockTimeout, tables, IInv, TypeOK, ClientsTypeOK
  <2>2. /\ RetryStep(k) \in {"read", "begin"}
        /\ k.op = "restore" => seen'[c].runs[k.run] = None
    BY <1>2, <2>1, FirstSteps, CallFields DEF NothingSeen
  <2>3. QED
    BY <1>6, <1>7, <2>1, <2>2
<1>13. CASE Commit(c) /\ ~CommitSaveComparison(c)
  <2>1. /\ k.op # "save_comparison" /\ comparisons' \subseteq comparisons
        /\ Ends \/ (call'[c] = k /\ pc'[c] = "readback")
    BY <1>13
    DEF Commit, Committing, CommitIngest, CommitRestore, CommitAnnotate, CommitBulkLabel,
        CommitBulkDecide, CommitPrune, CommitDeleteComparison, Committed, CommittedAndDone,
        End, Ingested, Restored, Annotated, BulkLabeled, BulkDecided, Deleted,
        ComparisonDeleted, IInv, TypeOK, ClientsTypeOK
  <2>2. QED
    BY <1>3, <1>4, <2>1
<1>14. CASE ReadRunB(c)
  <2>1. /\ pc[c] = "run_b" /\ k.op = "save_comparison" /\ pc'[c] = "begin"
        /\ call'[c] = k /\ comparisons' = comparisons
    BY <1>14 DEF ReadRunB, tables, IInv, TypeOK, ClientsTypeOK
  <2>2. QED
    BY <1>7, <2>1
<1>15. QED
  BY <1>3, <1>5, <1>8, <1>9, <1>10, <1>11, <1>12, <1>13, <1>14, EndsAreGiveUps DEF Step, IInv

(* Every step keeps what calls say of themselves. *)
LEMMA NextCallInv == IInv /\ CallInv /\ [Next]_vars => CallInv'
<1> SUFFICES ASSUME IInv, CallInv, [Next]_vars PROVE CallInv'
  OBVIOUS
<1>1. CASE Tick \/ UNCHANGED vars
  <2>1. UNCHANGED <<tables, clientVars>> /\ now \in Nat /\ now' \in Nat /\ now <= now'
    BY <1>1 DEF Tick, vars, tables, clientVars, IInv, TypeOK, TablesTypeOK
  <2>2. QED
    BY <2>1 DEF CallInv, IdsAreFresh, CutoffsAreAges, KeptReviewsFit, CallsAreOffered, Saving,
                tables, clientVars
<1>2. QED
  BY <1>1, StartKeepsCalls, StepKeepsCalls DEF Next

(* Every reachable state satisfies both invariants. *)
THEOREM CallInvariance == Spec => [](IInv /\ CallInv)
BY InitIInv, NextIInv, InitCallInv, NextCallInv, PTL DEF Spec

-----------------------------------------------------------------------------
(* Histories within the bound.                                             *)

(* The calls that may still record a decision of r.                        *)
Deciding(r) ==
  {c \in Clients :
     /\ pc[c] \notin {"idle", "readback"}
     /\ \/ call[c].op = "annotate" /\ call[c].run = r /\ call[c].decision # None
        \/ call[c].op = "bulk_decide" /\ r \in call[c].runs}

(* There is an entry left for each of them, within the bound of Roomy.     *)
HistoriesHaveRoom ==
  \A r \in RunIds :
     Len(history[r]) + Cardinality(Deciding(r)) <= MaxHistory + Cardinality(Clients)

LEMMA DecidersAreFew ==
  ASSUME NEW r
  PROVE  /\ Deciding(r) \in SUBSET Clients /\ IsFiniteSet(Deciding(r))
         /\ Cardinality(Deciding(r)) \in Nat /\ Cardinality(Clients) \in Nat
         /\ Cardinality(Deciding(r)) <= Cardinality(Clients)
         /\ Deciding(r) # {} => Cardinality(Deciding(r)) >= 1
<1>1. Deciding(r) \in SUBSET Clients
  BY DEF Deciding
<1>2. QED
  BY <1>1, ClientAssumption, FS_Subset, FS_CardinalityType, FS_EmptySet

(* Room is kept by steps after which nobody else is deciding, if a history *)
(* is short or grows by the entry of a client that is done deciding.       *)
LEMMA RoomKept ==
  ASSUME NEW r \in RunIds, NEW c \in Clients,
         history \in [RunIds -> Seq(Change)], history' \in [RunIds -> Seq(Change)],
         Len(history[r]) + Cardinality(Deciding(r)) <= MaxHistory + Cardinality(Clients),
         \/ Len(history'[r]) <= MaxHistory
         \/ Deciding(r)' \subseteq Deciding(r) /\ Len(history'[r]) <= Len(history[r])
         \/ /\ Deciding(r)' \subseteq Deciding(r) \ {c} /\ c \in Deciding(r)
            /\ Len(history'[r]) = Len(history[r]) + 1
  PROVE  Len(history'[r]) + Cardinality(Deciding(r)') <= MaxHistory + Cardinality(Clients)
<1>1. /\ IsFiniteSet(Deciding(r)) /\ Cardinality(Deciding(r)) \in Nat
      /\ Cardinality(Clients) \in Nat /\ MaxHistory \in Nat
  BY DecidersAreFew, ClientAssumption
<1>2. /\ Deciding(r)' \in SUBSET Clients /\ Cardinality(Deciding(r)') \in Nat
      /\ Cardinality(Deciding(r)') <= Cardinality(Clients)
  <2>1. Deciding(r)' \in SUBSET Clients
    BY DEF Deciding
  <2>2. QED
    BY <2>1, ClientAssumption, FS_Subset, FS_CardinalityType
<1>3. Len(history[r]) \in Nat /\ Len(history'[r]) \in Nat
  OBVIOUS
<1>4. CASE Len(history'[r]) <= MaxHistory
  BY <1>1, <1>2, <1>3, <1>4
<1>5. CASE Deciding(r)' \subseteq Deciding(r) /\ Len(history'[r]) <= Len(history[r])
  <2>1. Cardinality(Deciding(r)') <= Cardinality(Deciding(r))
    BY <1>1, <1>5, FS_Subset
  <2>2. QED
    BY <1>1, <1>2, <1>3, <1>5, <2>1
<1>6. CASE /\ Deciding(r)' \subseteq Deciding(r) \ {c} /\ c \in Deciding(r)
           /\ Len(history'[r]) = Len(history[r]) + 1
  <2>1. /\ Cardinality(Deciding(r) \ {c}) = Cardinality(Deciding(r)) - 1
        /\ IsFiniteSet(Deciding(r) \ {c})
    BY <1>1, <1>6, FS_RemoveElement
  <2>2. Cardinality(Deciding(r)') <= Cardinality(Deciding(r) \ {c})
    BY <1>6, <2>1, FS_Subset
  <2>3. QED
    BY <1>1, <1>2, <1>3, <1>6, <2>1, <2>2
<1>7. QED
  BY <1>4, <1>5, <1>6

LEMMA InitRoom == Init => HistoriesHaveRoom
<1> SUFFICES ASSUME Init, NEW r \in RunIds
             PROVE  Len(history[r]) + Cardinality(Deciding(r)) <= MaxHistory + Cardinality(Clients)
  BY DEF HistoriesHaveRoom
<1>1. Len(history[r]) = 0
  BY DEF Init, TablesInit
<1>2. QED
  BY <1>1, DecidersAreFew, ClientAssumption

(* A call that decides on a run begins while its history is within bounds. *)
LEMMA StartKeepsRoom ==
  ASSUME IInv, HistoriesHaveRoom, NEW c \in Clients, Start(c)
  PROVE  HistoriesHaveRoom'
<1>1. PICK k \in Calls : /\ call' = [call EXCEPT ![c] = k]
                         /\ pc' = [pc EXCEPT ![c] = FirstStep(k)]
  BY DEF Start
<1>2. /\ pc[c] = "idle" /\ k \in Call /\ Possible(k) /\ history' = history
      /\ history \in [RunIds -> Seq(Change)] /\ MaxHistory \in Nat
  BY CallsAreCalls, ClientAssumption
  DEF Start, Calls, tables, IInv, TypeOK, ClientsTypeOK, TablesTypeOK
<1>3. /\ call'[c] = k
      /\ \A d \in Clients : d # c => call'[d] = call[d] /\ pc'[d] = pc[d]
  BY <1>1 DEF IInv, TypeOK, ClientsTypeOK
<1> SUFFICES ASSUME NEW r \in RunIds
             PROVE  Len(history'[r]) + Cardinality(Deciding(r)') <= MaxHistory + Cardinality(Clients)
  BY DEF HistoriesHaveRoom
<1>4. Len(history'[r]) <= MaxHistory \/ Deciding(r)' \subseteq Deciding(r)
  <2>1. c \in Deciding(r)' => Len(history[r]) < MaxHistory
    BY <1>2, <1>3 DEF Deciding, Possible
  <2>2. \A d \in Clients : d # c /\ d \in Deciding(r)' => d \in Deciding(r)
    BY <1>3 DEF Deciding
  <2>3. Deciding(r)' \subseteq Clients /\ Len(history[r]) \in Nat
    BY <1>2 DEF Deciding
  <2>4. QED
    BY <1>2, <2>1, <2>2, <2>3
<1>5. Len(history'[r]) <= Len(history[r]) /\ history' \in [RunIds -> Seq(Change)]
  BY <1>2
<1>6. Len(history[r]) + Cardinality(Deciding(r)) <= MaxHistory + Cardinality(Clients)
  BY DEF HistoriesHaveRoom
<1>7. QED
  BY <1>2, <1>4, <1>5, <1>6, RoomKept

(* What a commit makes of the history of a run: one entry more, if the     *)
(* client was to decide on that run; the history of a bundle; or no more   *)
(* than it was.                                                            *)
LEMMA CommitHistories ==
  ASSUME IInv, CallInv, NEW c \in Clients, Commit(c), NEW r \in RunIds
  PROVE  \/ Len(history'[r]) <= MaxHistory
         \/ Len(history'[r]) <= Len(history[r])
         \/ c \in Deciding(r) /\ Len(history'[r]) = Len(history[r]) + 1
<1> DEFINE k == call[c]
<1>1. pc[c] = "commit" /\ k \in Call /\ k # None
  BY CallAssumption
  DEF IInv, TypeOK, ClientsTypeOK, Commit, Committing, CommitIngest, CommitRestore,
      CommitAnnotate, CommitBulkLabel, CommitBulkDecide, CommitPrune, CommitSaveComparison,
      CommitDeleteComparison
<1>2. history \in [RunIds -> Seq(Change)] /\ MaxHistory \in Nat /\ HistoryLimit \in Nat
      /\ HistoryLimit <= MaxHistory /\ Len(history[r]) \in Nat
  BY ClientAssumption DEF IInv, TypeOK, TablesTypeOK
<1>3. CASE history' = history
  BY <1>2, <1>3
<1>4. CASE CommitRestore(c)
  <2> DEFINE review == SelectedReview(k, seen[c])
  <2>1. /\ k.op = "restore" /\ k.run \in RunIds /\ k.review \in Bundled
        /\ history' = [history EXCEPT ![k.run] = review.decision_history]
    BY <1>1, <1>4, CallFields DEF CommitRestore, Committing, Restored
  <2>2. Len(review.decision_history) <= HistoryLimit
    BY <1>1, <2>1, ClientAssumption DEF SelectedReview, CallInv, KeptReviewsFit
  <2>3. review.decision_history \in Seq(Change)
    BY <1>1, <2>1, SelectedReviewType DEF IInv, TypeOK, ClientsTypeOK, ReadsAreCurrent, Review
  <2> HIDE DEF review
  <2>4. CASE r = k.run
    <3>1. history'[r] = review.decision_history /\ Len(review.decision_history) \in Nat
      BY <1>2, <2>1, <2>3, <2>4
    <3>2. QED
      BY <1>2, <2>2, <3>1
  <2>5. CASE r # k.run
    BY <1>2, <2>1, <2>5
  <2>6. QED
    BY <2>4, <2>5
<1>5. CASE CommitAnnotate(c)
  <2>1. /\ k.op = "annotate" /\ k.run \in RunIds
        /\ Annotated(k.run, k.label, k.decision, seen[c].runs[k.run].decision)
    BY <1>1, <1>5, CallFields DEF CommitAnnotate, Committing
  <2>2. CASE history' # history /\ r = k.run
    <3>1. k.decision # None
          /\ history'[r] = Append(history[r], [previous_decision |-> seen[c].runs[k.run].decision,
                                               decision |-> k.decision])
      BY <1>2, <2>1, <2>2 DEF Annotated, Recorded
    <3>2. QED
      BY <1>1, <1>2, <2>1, <2>2, <3>1 DEF Deciding
  <2>3. CASE r # k.run
    BY <1>2, <2>1, <2>3 DEF Annotated
  <2>4. QED
    BY <1>3, <2>2, <2>3
<1>6. CASE CommitBulkDecide(c)
  <2>1. /\ k.op = "bulk_decide" /\ BulkDecided(k.runs, k.decision, seen[c].runs)
    BY <1>6 DEF CommitBulkDecide, Committing
  <2>2. CASE r \in Changing(k.runs, k.decision, seen[c].runs)
    <3>1. r \in k.runs
          /\ history'[r] = Append(history[r], [previous_decision |-> seen[c].runs[r].decision,
                                               decision |-> k.decision])
      BY <2>1, <2>2 DEF BulkDecided, Changing, Recorded
    <3>2. QED
      BY <1>1, <1>2, <2>1, <3>1 DEF Deciding
  <2>3. CASE r \notin Changing(k.runs, k.decision, seen[c].runs)
    BY <1>2, <2>1, <2>3 DEF BulkDecided
  <2>4. QED
    BY <2>2, <2>3
<1>7. CASE CommitPrune(c)
  <2>1. Len(history'[r]) = 0 \/ history'[r] = history[r]
    BY <1>7 DEF CommitPrune, Deleted
  <2>2. QED
    BY <1>2, <2>1
<1>8. QED
  BY <1>3, <1>4, <1>5, <1>6, <1>7
  DEF Commit, CommitIngest, CommitBulkLabel, CommitSaveComparison, CommitDeleteComparison,
      Ingested, BulkLabeled, ComparisonSaved, ComparisonDeleted

(* No step of a client makes it decide, and its commit makes it stop.      *)
LEMMA StepKeepsRoom ==
  ASSUME IInv, IInv', CallInv, HistoriesHaveRoom, NEW c \in Clients, Step(c) \/ Crash(c)
  PROVE  HistoriesHaveRoom'
<1>1. /\ \A d \in Clients : d # c => call'[d] = call[d] /\ pc'[d] = pc[d]
      /\ pc'[c] = "idle" \/ (call'[c] = call[c] /\ pc[c] \notin {"idle", "readback"})
  BY DEF Step, Crash, Commit, Read, ReadAndReturn, ReadHistory, ReadRunB, HistoryTooLong,
         RunBMissing, BeginWrite,
         LockTimeout, LockError, AnnotateNothing, RollBack, ReadBack, CommitIngest,
         CommitRestore, CommitAnnotate, CommitBulkLabel, CommitBulkDecide, CommitPrune,
         CommitSaveComparison, CommitDeleteComparison, Committing, Committed, CommittedAndDone,
         GiveUp, End, IInv, TypeOK, ClientsTypeOK
<1>2. Commit(c) => pc'[c] \in {"idle", "readback"}
  BY DEF Commit, CommitIngest, CommitRestore, CommitAnnotate, CommitBulkLabel, CommitBulkDecide,
         CommitPrune, CommitSaveComparison, CommitDeleteComparison, Committed, CommittedAndDone,
         End, IInv, TypeOK, ClientsTypeOK
<1>3. history' = history \/ Commit(c)
  BY DEF Step, Crash, Read, ReadAndReturn, ReadHistory, ReadRunB, HistoryTooLong, RunBMissing,
         BeginWrite,
         LockTimeout, LockError, AnnotateNothing, RollBack, ReadBack, GiveUp, tables
<1> SUFFICES ASSUME NEW r \in RunIds
             PROVE  Len(history'[r]) + Cardinality(Deciding(r)') <= MaxHistory + Cardinality(Clients)
  BY DEF HistoriesHaveRoom
<1>4. Deciding(r)' \subseteq Deciding(r) /\ (Commit(c) => Deciding(r)' \subseteq Deciding(r) \ {c})
  BY <1>1, <1>2 DEF Deciding
<1>5. /\ history \in [RunIds -> Seq(Change)] /\ history' \in [RunIds -> Seq(Change)]
      /\ Len(history[r]) \in Nat
      /\ Len(history[r]) + Cardinality(Deciding(r)) <= MaxHistory + Cardinality(Clients)
  BY DEF IInv, TypeOK, TablesTypeOK, HistoriesHaveRoom
<1>6. CASE history' = history
  BY <1>4, <1>5, <1>6, RoomKept
<1>7. CASE Commit(c)
  BY <1>4, <1>5, <1>7, RoomKept, CommitHistories
<1>8. QED
  BY <1>3, <1>6, <1>7

LEMMA NextRoom == IInv /\ IInv' /\ CallInv /\ HistoriesHaveRoom /\ [Next]_vars => HistoriesHaveRoom'
<1> SUFFICES ASSUME IInv, IInv', CallInv, HistoriesHaveRoom, [Next]_vars PROVE HistoriesHaveRoom'
  OBVIOUS
<1>1. CASE Tick \/ UNCHANGED vars
  BY <1>1 DEF Tick, vars, tables, clientVars, HistoriesHaveRoom, Deciding
<1>2. QED
  BY <1>1, StartKeepsRoom, StepKeepsRoom DEF Next

(* In every reachable state histories have room for what is being decided. *)
THEOREM HistoriesAlwaysHaveRoom == Spec => []HistoriesHaveRoom
BY InitRoom, NextRoom, CallInvariance, PTL DEF Spec

-----------------------------------------------------------------------------
(* The same effects, of both modules. *)
LEMMA SameEffects ==
  ASSUME NEW r, NEW trace, NEW review, NEW label, NEW decision, NEW previous, NEW R, NEW x, NEW id
  PROVE  /\ Roomy!Ingested(r, trace) <=> Ingested(r, trace)
         /\ Roomy!Restored(r, trace, review) <=> Restored(r, trace, review)
         /\ Roomy!Annotated(r, label, decision, previous) <=> Annotated(r, label, decision, previous)
         /\ Roomy!BulkLabeled(R, label) <=> BulkLabeled(R, label)
         /\ Roomy!BulkDecided(R, decision, runs) <=> BulkDecided(R, decision, runs)
         /\ Roomy!Deleted(R) <=> Deleted(R)
         /\ Roomy!ComparisonSaved(x) <=> ComparisonSaved(x)
         /\ Roomy!ComparisonDeleted(id) <=> ComparisonDeleted(id)
         /\ Roomy!Stored(r) <=> Stored(r)
         /\ Roomy!ReviewOf(r) = ReviewOf(r)
BY DEF Roomy!Ingested, Roomy!Upserted, Roomy!Stored, Roomy!Restored, Roomy!Reviewed,
       Roomy!Annotated, Roomy!Annotate, Roomy!Decided, Roomy!Recorded, Roomy!BulkLabeled,
       Roomy!BulkDecided, Roomy!Changing, Roomy!Deleted, Roomy!ComparisonSaved,
       Roomy!ComparisonDeleted, Roomy!ReviewOf, Ingested, Upserted, Stored, Restored, Reviewed,
       Annotated, Annotate, Decided, Recorded, BulkLabeled, BulkDecided, Changing, Deleted,
       ComparisonSaved, ComparisonDeleted, ReviewOf

(* A commit whose read is current does what the atomic operation does: a   *)
(* restore keeps the review the run has, a change is recorded against the  *)
(* decision the run has, and a prune deletes what is expired.  A saved     *)
(* comparison rests on the foreign keys alone.                             *)
LEMMA CommitIsAtomic ==
  ASSUME IInv, CallInv, HistoriesHaveRoom, NEW c \in Clients, Commit(c),
         stale[c] = {} \/ call[c].op = "save_comparison"
  PROVE  Roomy!Next
<1> USE DEF IInv, TypeOK
<1> DEFINE k == call[c]
<1>1. pc[c] = "commit" /\ k \in Call /\ k # None
  BY CallAssumption
  DEF Commit, Committing, CommitIngest, CommitRestore, CommitAnnotate, CommitBulkLabel,
      CommitBulkDecide, CommitPrune, CommitSaveComparison, CommitDeleteComparison, ClientsTypeOK
<1>2. ReadsFirst(k) /\ k.op # "save_comparison" => \A r \in ReadSet(k) :
         /\ seen[c].runs[r] = runs[r]
         /\ k.op = "restore" /\ Stored(r) => seen[c].history[r] = history[r]
  BY <1>1, CommitsRestOnReads
<1>3. now' = now
  BY DEF Commit, CommitIngest, CommitRestore, CommitAnnotate, CommitBulkLabel, CommitBulkDecide,
         CommitPrune, CommitSaveComparison, CommitDeleteComparison, Committed, CommittedAndDone
<1>0. ASSUME NEW r \in RunIds, c \in Deciding(r) PROVE Len(history[r]) < MaxHistory + Cardinality(Clients)
  <2>1. /\ Len(history[r]) \in Nat /\ MaxHistory \in Nat
        /\ Len(history[r]) + Cardinality(Deciding(r)) <= MaxHistory + Cardinality(Clients)
    BY ClientAssumption DEF TablesTypeOK, HistoriesHaveRoom
  <2>2. /\ Cardinality(Deciding(r)) \in Nat /\ Cardinality(Deciding(r)) >= 1
        /\ Cardinality(Clients) \in Nat
    BY <1>0, DecidersAreFew
  <2>3. QED
    BY <2>1, <2>2
<1>4. CASE CommitIngest(c)
  <2>1. k.run \in RunIds /\ k.trace \in Traces /\ Ingested(k.run, k.trace)
    BY <1>1, <1>4, CallFields DEF CommitIngest, Committing
  <2>2. Roomy!Ingest(k.run, k.trace)
    BY <1>3, <2>1, SameEffects DEF Roomy!Ingest
  <2>3. QED
    BY <2>1, <2>2 DEF Roomy!Next
<1>5. CASE CommitRestore(c)
  <2> DEFINE review == SelectedReview(k, seen[c])
  <2>1. /\ k.op = "restore" /\ k.run \in RunIds /\ k.trace \in Traces
        /\ k.review \in Bundled /\ k.policy \in {"use-bundle", "keep-local"}
        /\ Restored(k.run, k.trace, review)
    BY <1>1, <1>5, CallFields DEF CommitRestore, Committing, Policies
  <2>2. ASSUME k.policy = "keep-local", Stored(k.run)
        PROVE  Roomy!Restore(k.run, k.trace, k.review, k.policy)
    <3>1. seen[c].runs[k.run] = runs[k.run] /\ seen[c].history[k.run] = history[k.run]
      BY <1>2, <2>1, <2>2 DEF ReadsFirst, ReadSet
    <3>2. review = ReviewOf(k.run)
      BY <2>2, <3>1 DEF SelectedReview, ReviewOf, Stored
    <3>3. Len(history[k.run]) <= HistoryLimit
      BY <1>1, <2>1, <2>2, <3>1 DEF CallInv, KeptReviewsFit, Stored
    <3>4. QED
      BY <1>3, <2>1, <2>2, <3>2, <3>3, SameEffects DEF Roomy!Restore
  <2>3. ASSUME ~(k.policy = "keep-local" /\ Stored(k.run))
        PROVE  Roomy!Restore(k.run, k.trace, k.review, k.policy)
    <3>1. review = k.review
      BY <1>2, <2>1, <2>3 DEF SelectedReview, ReadsFirst, ReadSet, Stored
    <3>2. QED
      BY <1>3, <2>1, <2>3, <3>1, SameEffects DEF Roomy!Restore
  <2>4. Roomy!Restore(k.run, k.trace, k.review, k.policy)
    BY <1>3, <2>1, <2>2, <2>3
  <2>5. QED
    BY <2>1, <2>4 DEF Roomy!Next
<1>6. CASE CommitAnnotate(c)
  <2>1. /\ k.op = "annotate" /\ k.run \in RunIds /\ Stored(k.run)
        /\ k.label \in Labels \cup {None} /\ k.decision \in Decisions \cup {None}
        /\ Annotated(k.run, k.label, k.decision, seen[c].runs[k.run].decision)
    BY <1>1, <1>6, CallFields DEF CommitAnnotate, Committing
  <2>2. seen[c].runs[k.run] = runs[k.run]
    BY <1>2, <2>1 DEF ReadsFirst, ReadSet
  <2>3. k.decision # None => Len(history[k.run]) < MaxHistory + Cardinality(Clients)
    BY <1>0, <1>1, <2>1 DEF Deciding
  <2>4. Roomy!UpdateAnnotations(k.run, k.label, k.decision)
    BY <1>3, <2>1, <2>2, <2>3, SameEffects DEF Roomy!UpdateAnnotations, Roomy!Room
  <2>5. QED
    BY <2>1, <2>4 DEF Roomy!Next
<1>7. CASE CommitBulkLabel(c)
  <2>1. k.runs \in SUBSET RunIds /\ k.label \in Labels /\ BulkLabeled(k.runs, k.label)
    BY <1>1, <1>7, CallFields DEF CommitBulkLabel, Committing
  <2>2. Roomy!BulkSetLabels(k.runs, k.label)
    BY <1>3, <2>1, SameEffects DEF Roomy!BulkSetLabels
  <2>3. QED
    BY <2>1, <2>2 DEF Roomy!Next
<1>8. CASE CommitBulkDecide(c)
  <2>1. /\ k.op = "bulk_decide" /\ k.runs \in SUBSET RunIds /\ k.decision \in Decisions
        /\ BulkDecided(k.runs, k.decision, seen[c].runs)
    BY <1>1, <1>8, CallFields DEF CommitBulkDecide, Committing
  <2>2. \A r \in k.runs : seen[c].runs[r] = runs[r]
    BY <1>2, <2>1 DEF ReadsFirst, ReadSet
  <2>3. Changing(k.runs, k.decision, seen[c].runs) = Changing(k.runs, k.decision, runs)
    BY <2>2 DEF Changing
  <2>4. BulkDecided(k.runs, k.decision, runs)
    BY <2>1, <2>2, <2>3 DEF BulkDecided, Changing
  <2>5. \A r \in k.runs : Len(history[r]) < MaxHistory + Cardinality(Clients)
    BY <1>0, <1>1, <2>1 DEF Deciding
  <2>6. Roomy!BulkSetDecisions(k.runs, k.decision)
    BY <1>3, <2>1, <2>4, <2>5, SameEffects DEF Roomy!BulkSetDecisions, Roomy!Room
  <2>7. QED
    BY <2>1, <2>6 DEF Roomy!Next
<1>9. CASE CommitPrune(c)
  <2>1. /\ k.op = "prune" /\ k.runs \in SUBSET RunIds /\ k.keep_labeled \in BOOLEAN
        /\ Deleted(Eligible(k, seen[c].runs))
    BY <1>1, <1>9, CallFields DEF CommitPrune, Committing
  <2>2. \A r \in k.runs : seen[c].runs[r] = runs[r]
    BY <1>2, <2>1 DEF ReadsFirst, ReadSet
  <2>3. Eligible(k, seen[c].runs) =
          {r \in k.runs : Roomy!Expired(runs[r], k.cutoff, k.keep_labeled)}
    BY <2>2 DEF Eligible, Expired, Roomy!Expired
  <2>4. Roomy!PruneRuns(k.runs, k.cutoff, k.keep_labeled)
    BY <1>3, <2>1, <2>3, SameEffects DEF Roomy!PruneRuns
  <2>5. k.cutoff \in Roomy!Cutoffs
    BY <1>1, <2>1 DEF CallInv, CutoffsAreAges, Roomy!Cutoffs
  <2>6. QED
    BY <2>1, <2>4, <2>5 DEF Roomy!Next
<1>10. CASE CommitSaveComparison(c)
  <2>1. /\ k.op = "save_comparison" /\ k.comparison \in Comparison
        /\ Stored(k.comparison.run_a) /\ Stored(k.comparison.run_b)
        /\ ComparisonSaved(k.comparison)
    BY <1>1, <1>10, CallFields DEF CommitSaveComparison, Committing
  <2>2. \A x \in comparisons : x.comparison_id # k.comparison.comparison_id
    BY <1>1, <2>1 DEF CallInv, IdsAreFresh, Saving
  <2>3. Roomy!SaveComparison(k.comparison)
    BY <1>3, <2>1, <2>2, SameEffects DEF Roomy!SaveComparison
  <2>4. k.comparison \in Roomy!Comparison
    BY <2>1 DEF Comparison, Roomy!Comparison
  <2>5. QED
    BY <2>3, <2>4 DEF Roomy!Next
<1>11. CASE CommitDeleteComparison(c)
  <2>1. k.comparison_id \in ComparisonIds /\ ComparisonDeleted(k.comparison_id)
    BY <1>1, <1>11, CallFields DEF CommitDeleteComparison, Committing
  <2>2. Roomy!DeleteComparison(k.comparison_id)
    BY <1>3, <2>1, SameEffects DEF Roomy!DeleteComparison
  <2>3. QED
    BY <2>1, <2>2 DEF Roomy!Next
<1>12. QED
  BY <1>4, <1>5, <1>6, <1>7, <1>8, <1>9, <1>10, <1>11 DEF Commit

(* The clock ticks as the atomic clock does.                               *)
LEMMA TickIsAtomic == Tick => Roomy!Next
BY DEF Tick, Roomy!Next, Roomy!Tick, tables, Roomy!tables

-----------------------------------------------------------------------------
(* What the code's transactions keep of the documentation: the tables      *)
(* change only when the clock ticks, by the documented operation, or by a  *)
(* commit whose read another client has overtaken.                         *)
THEOREM CommitsAreAtomic == Spec => AtomicUnlessOvertaken
<1> DEFINE A == \/ UNCHANGED <<tables, now>>
                \/ \E c \in Clients : /\ Commits(c) /\ stale[c] # {}
                                     /\ call[c].op # "save_comparison"
                \/ Roomy!Next
<1>1. IInv /\ CallInv /\ HistoriesHaveRoom /\ [Next]_vars => [A]_vars
  <2> SUFFICES ASSUME IInv, CallInv, HistoriesHaveRoom, [Next]_vars, vars' # vars PROVE A
    OBVIOUS
  <2>1. CASE Tick
    BY <2>1, TickIsAtomic
  <2>2. CASE ~Tick
    <3>1. now' = now
      BY <2>2
      DEF Next, Start, Step, Crash, Commit, Read, ReadAndReturn, ReadHistory, ReadRunB,
          HistoryTooLong, RunBMissing,
          BeginWrite, LockTimeout, LockError, AnnotateNothing, RollBack, ReadBack, CommitIngest,
          CommitRestore, CommitAnnotate, CommitBulkLabel, CommitBulkDecide, CommitPrune,
          CommitSaveComparison, CommitDeleteComparison, Committed, CommittedAndDone, GiveUp
    <3>2. UNCHANGED tables \/ \E c \in Clients : Commit(c) /\ Commits(c)
      BY StepCommitsOrIsQuiet DEF IInv
    <3>3. QED
      BY <3>1, <3>2, CommitIsAtomic
  <2>3. QED
    BY <2>1, <2>2
<1>2. QED
  BY <1>1, CallInvariance, HistoriesAlwaysHaveRoom, PTL DEF Spec, AtomicUnlessOvertaken

-----------------------------------------------------------------------------
(* The operations that are one statement each, and read nothing first.     *)
SingleStatements == {"ingest", "bulk_label", "save_comparison", "delete_comparison"}

(* A commit of a single statement is the documented operation, whatever    *)
(* was committed since the call began.                                     *)
LEMMA StatementIsAtomic ==
  ASSUME IInv, CallInv, Ops \subseteq SingleStatements, NEW c \in Clients, Commit(c)
  PROVE  Atomic!Next
<1> USE DEF IInv, TypeOK
<1> DEFINE k == call[c]
<1>1. /\ k \in Call /\ k # None /\ k.op \in SingleStatements
      /\ now' = now
  <2>1. k # None
    BY DEF Commit, Committing, CommitIngest, CommitRestore, CommitAnnotate, CommitBulkLabel,
           CommitBulkDecide, CommitPrune, CommitSaveComparison, CommitDeleteComparison,
           ClientsTypeOK
  <2>2. now' = now
    BY DEF Commit, CommitIngest, CommitRestore, CommitAnnotate, CommitBulkLabel,
           CommitBulkDecide, CommitPrune, CommitSaveComparison, CommitDeleteComparison,
           Committed, CommittedAndDone
  <2>3. QED
    BY <2>1, <2>2 DEF ClientsTypeOK, CallInv, CallsAreOffered
<1>2. \/ CommitIngest(c) \/ CommitBulkLabel(c) \/ CommitSaveComparison(c)
      \/ CommitDeleteComparison(c)
  BY <1>1 DEF Commit, Committing, CommitRestore, CommitAnnotate, CommitBulkDecide, CommitPrune,
              SingleStatements
<1>3. CASE CommitIngest(c)
  <2>1. k.run \in RunIds /\ k.trace \in Traces /\ Ingested(k.run, k.trace)
    BY <1>1, <1>3, CallFields DEF CommitIngest, Committing
  <2>2. Atomic!Ingest(k.run, k.trace)
    BY <1>1, <2>1 DEF Atomic!Ingest, Atomic!Ingested, Atomic!Upserted, Atomic!Stored, Ingested,
                      Upserted, Stored
  <2>3. QED
    BY <2>1, <2>2 DEF Atomic!Next
<1>4. CASE CommitBulkLabel(c)
  <2>1. k.runs \in SUBSET RunIds /\ k.label \in Labels /\ BulkLabeled(k.runs, k.label)
    BY <1>1, <1>4, CallFields DEF CommitBulkLabel, Committing
  <2>2. Atomic!BulkSetLabels(k.runs, k.label)
    BY <1>1, <2>1 DEF Atomic!BulkSetLabels, Atomic!BulkLabeled, Atomic!Annotate, Atomic!Stored,
                      BulkLabeled, Annotate, Stored
  <2>3. QED
    BY <2>1, <2>2 DEF Atomic!Next
<1>5. CASE CommitSaveComparison(c)
  <2>1. /\ k.op = "save_comparison" /\ k.comparison \in Comparison
        /\ Stored(k.comparison.run_a) /\ Stored(k.comparison.run_b)
        /\ ComparisonSaved(k.comparison)
    BY <1>1, <1>5, CallFields DEF CommitSaveComparison, Committing
  <2>2. \A x \in comparisons : x.comparison_id # k.comparison.comparison_id
    BY <1>1, <1>5, <2>1 DEF CommitSaveComparison, Committing, CallInv, IdsAreFresh, Saving
  <2>3. Atomic!SaveComparison(k.comparison)
    BY <1>1, <2>1, <2>2 DEF Atomic!SaveComparison, Atomic!Stored, Atomic!ComparisonSaved,
                            Stored, ComparisonSaved
  <2>4. k.comparison \in Atomic!Comparison
    BY <2>1 DEF Comparison, Atomic!Comparison
  <2>5. QED
    BY <2>3, <2>4 DEF Atomic!Next
<1>6. CASE CommitDeleteComparison(c)
  <2>1. k.comparison_id \in ComparisonIds /\ ComparisonDeleted(k.comparison_id)
    BY <1>1, <1>6, CallFields DEF CommitDeleteComparison, Committing
  <2>2. Atomic!DeleteComparison(k.comparison_id)
    BY <1>1, <2>1 DEF Atomic!DeleteComparison, Atomic!ComparisonDeleted, ComparisonDeleted
  <2>3. QED
    BY <2>1, <2>2 DEF Atomic!Next
<1>7. QED
  BY <1>2, <1>3, <1>4, <1>5, <1>6

(* A store that is only offered these operations implements the documented *)
(* one: every write is one atomic step, in any interleaving, with any      *)
(* retries.                                                                *)
THEOREM SingleStatementsAreAtomic ==
  ASSUME Ops \subseteq SingleStatements
  PROVE  Spec => ImplementsAtomicStore
<1>1. Init => Atomic!Init
  BY DEF Init, TablesInit, Atomic!Init, Atomic!TablesInit
<1>2. IInv /\ CallInv /\ [Next]_vars => [Atomic!Next]_(Atomic!vars)
  <2> SUFFICES ASSUME IInv, CallInv, [Next]_vars, ~ UNCHANGED Atomic!vars PROVE Atomic!Next
    OBVIOUS
  <2>1. CASE Tick
    BY <2>1 DEF Tick, tables, Atomic!Next, Atomic!Tick, Atomic!tables
  <2>2. CASE ~Tick
    <3>1. now' = now
      BY <2>2
      DEF Next, Start, Step, Crash, Commit, Read, ReadAndReturn, ReadHistory, ReadRunB,
          HistoryTooLong, RunBMissing,
          BeginWrite, LockTimeout, LockError, AnnotateNothing, RollBack, ReadBack, CommitIngest,
          CommitRestore, CommitAnnotate, CommitBulkLabel, CommitBulkDecide, CommitPrune,
          CommitSaveComparison, CommitDeleteComparison, Committed, CommittedAndDone, GiveUp, vars
    <3>2. ~ UNCHANGED tables
      BY <3>1 DEF Atomic!vars, tables
    <3>3. QED
      BY <3>2, StepCommitsOrIsQuiet, StatementIsAtomic DEF IInv
  <2>3. QED
    BY <2>1, <2>2
<1>3. QED
  BY <1>1, <1>2, CallInvariance, PTL DEF Spec, ImplementsAtomicStore, Atomic!Spec

-----------------------------------------------------------------------------
(* Reads.  The library a reader sees is the one of the writing clients, so *)
(* their invariants hold under ReadSpec too; on top of them every reader   *)
(* keeps ReaderInv.                                                        *)

Asks(op, part) == \E i \in 1 .. Len(SelectsOf(op)) : SelectsOf(op)[i] = part
ToCome(q, part) == \E i \in 1 .. Len(selects[q]) : selects[q][i] = part

(* The read has made this SELECT. *)
Has(q, part) == request[q] # None /\ Asks(request[q].op, part) /\ ~ToCome(q, part)

ViewOK(v) ==
  /\ DOMAIN v = {"trace", "row", "tool_count", "spans", "history"}
  /\ v.trace \in Traces \cup {None} /\ v.row \in Row \cup {None}
  /\ v.spans \subseteq SpanIds
  /\ v.row # None => Stamped(v.row.decision, v.row.decision_at)

(* What a read has selected is still so, unless its run was changed. *)
ViewCurrent(q) ==
  LET r == request[q].run
      v == view[q]
  IN  /\ Has(q, "trace") => Stored(r) /\ v.trace = runs[r].trace
      /\ Has(q, "row") => v.row = runs[r]
      /\ Has(q, "tools") => v.tool_count = Cardinality(spans[r] \cap ToolSpans)
      /\ Has(q, "spans") => v.spans = spans[r]
      /\ Has(q, "history") => v.history = history[r]

(* An export asks for the history last and gets a page of it.              *)
ExportOK(q) ==
  /\ \A i \in 1 .. Len(selects[q]) :
        selects[q][i] = "exists" => i = Len(selects[q]) - 1 /\ selects[q][i + 1] = "page"
  /\ view[q].history \in Seq(Change) /\ Len(view[q].history) <= HistoryPage

ReaderInv(q) ==
  /\ ViewOK(view[q])
  /\ IF request[q] = None THEN selects[q] = << >>
     ELSE \A part : ToCome(q, part) => Asks(request[q].op, part)
  /\ request[q] # None /\ request[q].op = "export" => ExportOK(q)
  /\ Has(q, "row") /\ request[q].op # "preview" => view[q].row # None
  /\ request[q] # None /\ ~overtaken[q] => ViewCurrent(q)

ReadersTypeOK ==
  /\ request \in [Readers -> Request \cup {None}]
  /\ selects \in [Readers -> Seq(Parts)]
  /\ DOMAIN view = Readers /\ DOMAIN overtaken = Readers

ReadInv == ReadersTypeOK /\ \A q \in Readers : ReaderInv(q)

-----------------------------------------------------------------------------
(* Requests and their SELECTs.                                             *)

(* A request has the fields its operation asks for. *)
LEMMA RequestFields ==
  ASSUME NEW k \in Request
  PROVE  /\ k # None /\ k.op \in ReadOpNames /\ k.run \in RunIds
         /\ k.op = "preview" => k.review \in Bundled /\ k.trace \in Traces
BY RequestAssumption, ReadAssumption DEF Request

(* The SELECTs of an export, one by one. *)
LEMMA ExportSelects ==
  LET s == SelectsOf("export")
  IN  /\ s \in Seq(Parts) /\ Len(s) = 6
      /\ s[1] = "trace" /\ s[2] = "row" /\ s[3] = "tools" /\ s[4] = "spans"
      /\ s[5] = "exists" /\ s[6] = "page"
<1>1. SelectsOf("export") = <<"trace">> \o <<"row", "tools", "spans">> \o <<"exists", "page">>
  BY DEF SelectsOf, GetRun, DecisionHistory
<1>2. /\ <<"trace">> \in Seq(Parts) /\ <<"row", "tools", "spans">> \in Seq(Parts)
      /\ <<"exists", "page">> \in Seq(Parts)
  BY DEF Parts
<1>3. \A s, t \in Seq(Parts) : s \o t \in Seq(Parts)
  OBVIOUS
<1>4. <<"trace">> \o <<"row", "tools", "spans">> \in Seq(Parts)
  BY <1>2, <1>3
<1>5. SelectsOf("export") \in Seq(Parts)
  BY <1>1, <1>2, <1>3, <1>4
<1>6. QED
  BY <1>1, <1>5

(* The SELECTs of an operation, and those that its answers rest on. *)
LEMMA SelectsFacts ==
  ASSUME NEW op \in ReadOpNames
  PROVE  /\ SelectsOf(op) \in Seq(Parts)
         /\ op \in {"get_run", "error_timeline", "export", "preview"} => Asks(op, "row")
         /\ op \in {"get_run", "error_timeline", "export"} => Asks(op, "spans")
         /\ op \in {"get_run", "export"} => Asks(op, "tools")
         /\ op = "export" => Asks(op, "trace")
         /\ op = "preview" => Asks(op, "history")
         /\ Asks(op, "history") => ~Asks(op, "page")
<1>1. CASE op = "get_run"
  <2>1. SelectsOf(op) = <<"row", "tools", "spans">>
    BY <1>1 DEF SelectsOf, GetRun
  <2>2. /\ SelectsOf(op) \in Seq(Parts) /\ Len(SelectsOf(op)) = 3
        /\ SelectsOf(op)[1] = "row" /\ SelectsOf(op)[2] = "tools" /\ SelectsOf(op)[3] = "spans"
    BY <2>1 DEF Parts
  <2>3. QED
    BY <1>1, <2>2 DEF Asks
<1>2. CASE op = "error_timeline"
  <2>1. SelectsOf(op) = <<"row", "spans">>
    BY <1>2 DEF SelectsOf
  <2>2. /\ SelectsOf(op) \in Seq(Parts) /\ Len(SelectsOf(op)) = 2
        /\ SelectsOf(op)[1] = "row" /\ SelectsOf(op)[2] = "spans"
    BY <2>1 DEF Parts
  <2>3. QED
    BY <1>2, <2>2 DEF Asks
<1>3. CASE op = "decision_history"
  <2>1. SelectsOf(op) = <<"exists", "page">>
    BY <1>3 DEF SelectsOf, DecisionHistory
  <2>2. /\ SelectsOf(op) \in Seq(Parts) /\ Len(SelectsOf(op)) = 2
        /\ SelectsOf(op)[1] = "exists" /\ SelectsOf(op)[2] = "page"
    BY <2>1 DEF Parts
  <2>3. QED
    BY <1>3, <2>2 DEF Asks
<1>4. CASE op = "export"
  BY <1>4, ExportSelects DEF Asks
<1>5. CASE op = "preview"
  <2>1. SelectsOf(op) = <<"row", "history">>
    BY <1>5 DEF SelectsOf
  <2>2. /\ SelectsOf(op) \in Seq(Parts) /\ Len(SelectsOf(op)) = 2
        /\ SelectsOf(op)[1] = "row" /\ SelectsOf(op)[2] = "history"
    BY <2>1 DEF Parts
  <2>3. QED
    BY <1>5, <2>2 DEF Asks
<1>6. QED
  BY <1>1, <1>2, <1>3, <1>4, <1>5 DEF ReadOpNames

(* An export asks for a page of the history, not for all of it.            *)
LEMMA ExportAsks == ~Asks("export", "history")
<1>1. 6 \in 1 .. Len(SelectsOf("export")) /\ SelectsOf("export")[6] = "page"
  BY ExportSelects
<1>2. QED
  BY <1>1, SelectsFacts DEF Asks, ReadOpNames

(* One more SELECT leaves one less to come. *)
LEMMA OneLess ==
  ASSUME NEW s \in Seq(Parts), s # << >>
  PROVE  /\ Head(s) \in Parts /\ Tail(s) \in Seq(Parts)
         /\ \A part : (\E i \in 1 .. Len(s) : s[i] = part) =>
               part = Head(s) \/ \E i \in 1 .. Len(Tail(s)) : Tail(s)[i] = part
         /\ Len(Tail(s)) = Len(s) - 1
         /\ \A i \in 1 .. Len(Tail(s)) : Tail(s)[i] = s[i + 1]
<1>1. /\ Head(s) \in Parts /\ Tail(s) \in Seq(Parts) /\ Len(Tail(s)) = Len(s) - 1
      /\ Head(s) = s[1] /\ \A i \in 1 .. Len(Tail(s)) : Tail(s)[i] = s[i + 1]
  OBVIOUS
<1>2. ASSUME NEW i \in 1 .. Len(s), i # 1
      PROVE  i - 1 \in 1 .. Len(Tail(s)) /\ Tail(s)[i - 1] = s[i]
  BY <1>1, <1>2
<1>3. QED
  BY <1>1, <1>2

(* A page is no longer than a page. *)
LEMMA PageFits ==
  ASSUME NEW changes \in Seq(Change)
  PROVE  Page(changes) \in Seq(Change) /\ Len(Page(changes)) <= HistoryPage
BY ReadAssumption DEF Page

LEMMA NoViewOK == ViewOK(NoView)
BY DEF ViewOK, NoView

-----------------------------------------------------------------------------
(* The steps of a reader.                                                  *)

(* One SELECT of a read that finds its run. *)
LEMMA SelectedView ==
  ASSUME TypeOK, TablesConsistent, NEW r \in RunIds, NEW part \in Parts, NEW v, ViewOK(v),
         LooksForRun(part) => Stored(r), NEW w, w = Selected(part, v, r)
  PROVE  /\ ViewOK(w)
         /\ w.trace = IF part = "trace" THEN runs[r].trace ELSE v.trace
         /\ w.row = IF part = "row" THEN runs[r] ELSE v.row
         /\ w.tool_count = IF part = "tools" THEN Cardinality(spans[r] \cap ToolSpans)
                           ELSE v.tool_count
         /\ w.spans = IF part = "spans" THEN spans[r] ELSE v.spans
         /\ w.history = IF part = "page" THEN Page(history[r])
                        ELSE IF part = "history" THEN history[r] ELSE v.history
<1>1. Stored(r) => /\ runs[r] \in Row /\ runs[r].trace \in Traces
                   /\ Stamped(runs[r].decision, runs[r].decision_at)
  BY DEF TypeOK, TablesTypeOK, TablesConsistent, TablesAgree, DecisionStamped, Stored, Row
<1>2. spans[r] \subseteq SpanIds
  BY DEF TypeOK, TablesTypeOK
<1>3. CASE part = "trace"
  BY <1>1, <1>3 DEF Selected, ViewOK, LooksForRun
<1>4. CASE part = "row"
  BY <1>1, <1>4 DEF Selected, ViewOK, LooksForRun
<1>5. CASE part = "tools"
  BY <1>5 DEF Selected, ViewOK
<1>6. CASE part = "spans"
  BY <1>2, <1>6 DEF Selected, ViewOK
<1>7. CASE part = "exists"
  BY <1>7 DEF Selected, ViewOK
<1>8. CASE part = "page"
  BY <1>8 DEF Selected, ViewOK
<1>9. CASE part = "history"
  BY <1>9 DEF Selected, ViewOK
<1>10. QED
  BY <1>3, <1>4, <1>5, <1>6, <1>7, <1>8, <1>9 DEF Parts

(* A new request has selected nothing. *)
LEMMA AskKeepsReader ==
  ASSUME ReadInv, NEW q \in Readers, Ask(q)
  PROVE  ReadersTypeOK' /\ ReaderInv(q)'
<1>1. PICK k \in Request : /\ request' = [request EXCEPT ![q] = k]
                           /\ selects' = [selects EXCEPT ![q] = SelectsOf(k.op)]
  BY DEF Ask
<1>2. /\ view' = [view EXCEPT ![q] = NoView]
      /\ overtaken' = [overtaken EXCEPT ![q] = FALSE]
  BY DEF Ask
<1>3. k # None /\ k.op \in ReadOpNames /\ SelectsOf(k.op) \in Seq(Parts)
  BY RequestFields, SelectsFacts
<1>4. ReadersTypeOK'
  BY <1>1, <1>2, <1>3 DEF ReadInv, ReadersTypeOK
<1>5. request'[q] = k /\ selects'[q] = SelectsOf(k.op) /\ view'[q] = NoView
  BY <1>1, <1>2 DEF ReadInv, ReadersTypeOK
<1>6. \A part : ~Has(q, part)'
  BY <1>5 DEF Has, Asks, ToCome
<1>7. k.op = "export" => ExportOK(q)'
  <2>1. NoView.history \in Seq(Change) /\ Len(NoView.history) <= HistoryPage
    BY ReadAssumption DEF NoView
  <2>2. ASSUME k.op = "export", NEW i \in 1 .. Len(SelectsOf(k.op)),
               SelectsOf(k.op)[i] = "exists"
        PROVE  i = Len(SelectsOf(k.op)) - 1 /\ SelectsOf(k.op)[i + 1] = "page"
    <3>1. i \in {1, 2, 3, 4, 5, 6}
      BY <2>2, ExportSelects
    <3>2. i = 5
      BY <2>2, <3>1, ExportSelects
    <3>3. QED
      BY <2>2, <3>2, ExportSelects
  <2>3. QED
    BY <1>5, <2>1, <2>2 DEF ExportOK
<1>8. ViewCurrent(q)'
  BY <1>6 DEF ViewCurrent
<1>9. \A part : ToCome(q, part)' => Asks(request[q].op, part)'
  BY <1>5 DEF ToCome, Asks
<1>10. QED
  BY <1>3, <1>4, <1>5, <1>6, <1>7, <1>8, <1>9, NoViewOK DEF ReaderInv

(* A SELECT returns what is committed at that moment. *)
LEMMA SelectKeepsReader ==
  ASSUME IInv, ReadInv, NEW q \in Readers, Select(q)
  PROVE  ReadersTypeOK' /\ ReaderInv(q)'
<1> DEFINE k == request[q]
           r == k.run
           s == selects[q]
           part == Head(s)
<1>1. /\ s # << >> /\ (LooksForRun(part) => Stored(r))
      /\ view' = [view EXCEPT ![q] = Selected(part, view[q], r)]
      /\ selects' = [selects EXCEPT ![q] = Tail(s)]
      /\ UNCHANGED <<storeVars, request, overtaken>>
  BY DEF Select, Selecting
<1>2. /\ s \in Seq(Parts) /\ part \in Parts /\ Tail(s) \in Seq(Parts)
      /\ ReaderInv(q)
  BY <1>1, OneLess DEF ReadInv, ReadersTypeOK
<1>3. k \in Request /\ k # None /\ r \in RunIds
  BY <1>1, <1>2, RequestFields DEF ReadInv, ReadersTypeOK, ReaderInv
<1>4. ReadersTypeOK'
  BY <1>1, <1>2 DEF ReadInv, ReadersTypeOK
<1>5. /\ request'[q] = k /\ selects'[q] = Tail(s) /\ overtaken'[q] = overtaken[q]
      /\ view'[q] = Selected(part, view[q], r)
  BY <1>1 DEF ReadInv, ReadersTypeOK
<1>6. \A x : Has(q, x)' => x = part \/ Has(q, x)
  <2>1. \A x : ToCome(q, x) => x = part \/ ToCome(q, x)'
    <3> HIDE DEF s, part
    <3>1. \A x : (\E i \in 1 .. Len(s) : s[i] = x) =>
             x = part \/ \E i \in 1 .. Len(Tail(s)) : Tail(s)[i] = x
      BY <1>1, <1>2, OneLess DEF part
    <3>2. QED
      BY <1>5, <3>1 DEF ToCome, s
  <2>2. QED
    BY <1>5, <2>1 DEF Has, Asks
<1>7. UNCHANGED <<runs, spans, history>>
  BY <1>1 DEF storeVars
<1>8. /\ ViewOK(view'[q])
      /\ view'[q].trace = IF part = "trace" THEN runs[r].trace ELSE view[q].trace
      /\ view'[q].row = IF part = "row" THEN runs[r] ELSE view[q].row
      /\ view'[q].tool_count = IF part = "tools" THEN Cardinality(spans[r] \cap ToolSpans)
                               ELSE view[q].tool_count
      /\ view'[q].spans = IF part = "spans" THEN spans[r] ELSE view[q].spans
      /\ view'[q].history = IF part = "page" THEN Page(history[r])
                            ELSE IF part = "history" THEN history[r] ELSE view[q].history
  <2>1. ViewOK(view[q]) /\ TypeOK /\ TablesConsistent
    BY <1>2 DEF IInv, ReaderInv
  <2>2. r \in RunIds /\ part \in Parts /\ (LooksForRun(part) => Stored(r))
        /\ view'[q] = Selected(part, view[q], r)
    BY <1>1, <1>2, <1>3, <1>5
  <2> HIDE DEF r, part
  <2>3. QED
    BY <2>1, <2>2, SelectedView
<1>13. \A x : ToCome(q, x)' => ToCome(q, x)
  <2> HIDE DEF s
  <2>1. \A i \in 1 .. Len(Tail(s)) : i + 1 \in 1 .. Len(s) /\ Tail(s)[i] = s[i + 1]
    BY <1>1, <1>2, OneLess
  <2>2. QED
    BY <1>5, <2>1 DEF ToCome, s
<1>14. Asks(k.op, part)
  <2>1. 1 \in 1 .. Len(s) /\ s[1] = part
    BY <1>1, <1>2
  <2>2. QED
    BY <1>2, <1>3, <2>1 DEF ReaderInv, ToCome
<1>15. history[r] \in Seq(Change)
  BY <1>3 DEF IInv, TypeOK, TablesTypeOK
<1>9. k.op = "export" => ExportOK(q)'
  <2> SUFFICES ASSUME k.op = "export" PROVE ExportOK(q)'
    OBVIOUS
  <2>1. ExportOK(q)
    BY <1>2, <1>3 DEF ReaderInv
  <2>2. view'[q].history \in Seq(Change) /\ Len(view'[q].history) <= HistoryPage
    <3>1. part # "history"
      BY <1>14, SelectsFacts, ExportAsks
    <3>2. QED
      BY <1>8, <1>15, <2>1, <3>1, PageFits DEF ExportOK
  <2>3. ASSUME NEW i \in 1 .. Len(Tail(s)), Tail(s)[i] = "exists"
        PROVE  i = Len(Tail(s)) - 1 /\ Tail(s)[i + 1] = "page"
    <3> HIDE DEF s
    <3>1. Len(Tail(s)) = Len(s) - 1 /\ Len(s) \in Nat /\ Tail(s)[i] = s[i + 1]
      BY <1>1, <1>2, OneLess
    <3>2. i + 1 = Len(s) - 1 /\ s[i + 1 + 1] = "page"
      BY <2>1, <2>3, <3>1 DEF ExportOK, s
    <3>3. i + 1 \in 1 .. Len(Tail(s))
      BY <3>1, <3>2
    <3>4. \A j \in 1 .. Len(Tail(s)) : Tail(s)[j] = s[j + 1]
      BY <1>1, <1>2, OneLess
    <3>5. QED
      BY <3>1, <3>2, <3>3, <3>4
  <2>4. QED
    BY <1>5, <2>2, <2>3 DEF ExportOK
<1>10. Has(q, "row")' /\ k.op # "preview" => view'[q].row # None
  BY <1>1, <1>2, <1>6, <1>8 DEF ReaderInv, LooksForRun, Stored
<1>11. ~overtaken[q] => ViewCurrent(q)'
  <2> SUFFICES ASSUME ~overtaken[q] PROVE ViewCurrent(q)'
    OBVIOUS
  <2>1. ViewCurrent(q)
    BY <1>2, <1>3 DEF ReaderInv
  <2>2. part = "page" => ~Has(q, "history")'
    BY <1>3, <1>5, <1>14, SelectsFacts, RequestFields DEF Has
  <2>3. request'[q].run = r /\ (Stored(r) <=> Stored(r)')
    BY <1>5, <1>7 DEF Stored
  <2> HIDE DEF part
  <2>4. QED
    BY <1>1, <1>6, <1>7, <1>8, <2>1, <2>2, <2>3 DEF ViewCurrent, LooksForRun
<1>12. QED
  BY <1>3, <1>4, <1>5, <1>8, <1>9, <1>10, <1>11, <1>13, <1>2 DEF ReaderInv, Asks

(* A read that does not find its run is over. *)
LEMMA NotFoundKeepsReader ==
  ASSUME IInv, ReadInv, NEW q \in Readers, NotFound(q)
  PROVE  ReadersTypeOK' /\ ReaderInv(q)'
<1> DEFINE k == request[q]
<1>1. /\ selects' = [selects EXCEPT ![q] = << >>]
      /\ request' = [request EXCEPT ![q] = IF @.op = "preview" THEN @ ELSE None]
      /\ view' = [view EXCEPT ![q] = NoView]
      /\ UNCHANGED <<storeVars, overtaken>> /\ selects[q] # << >>
      /\ ~Stored(k.run)
  BY DEF NotFound, Selecting
<1>2. k \in Request /\ k # None /\ k.run \in RunIds /\ k.op \in ReadOpNames
  BY <1>1, RequestFields DEF ReadInv, ReadersTypeOK, ReaderInv
<1>3. ReadersTypeOK'
  <2>1. << >> \in Seq(Parts)
    OBVIOUS
  <2>2. QED
    BY <1>1, <1>2, <2>1 DEF ReadInv, ReadersTypeOK
<1>4. /\ selects'[q] = << >> /\ view'[q] = NoView
      /\ request'[q] = IF k.op = "preview" THEN k ELSE None
  BY <1>1 DEF ReadInv, ReadersTypeOK
<1>5. UNCHANGED <<runs, spans, history>>
  BY <1>1 DEF storeVars
<1>6. \A part : ~ToCome(q, part)'
  BY <1>4 DEF ToCome
<1>7. k.op = "preview" => ViewCurrent(q)'
  <2> SUFFICES ASSUME k.op = "preview" PROVE ViewCurrent(q)'
    OBVIOUS
  <2>1. /\ request'[q] = k /\ NoView.row = None /\ NoView.history = << >>
        /\ runs'[k.run] = None /\ history'[k.run] = << >>
    BY <1>1, <1>2, <1>4, <1>5
    DEF IInv, TablesConsistent, TablesAgree, RowsBelongToRuns, Stored, NoView
  <2>2. ~Asks("preview", "trace") /\ ~Asks("preview", "tools") /\ ~Asks("preview", "spans")
    BY DEF Asks, SelectsOf
  <2>3. QED
    BY <1>4, <2>1, <2>2 DEF ViewCurrent, Has, Asks
<1>8. QED
  BY <1>2, <1>3, <1>4, <1>6, <1>7, NoViewOK DEF ReaderInv, Has

(* An export of a run that is gone keeps the row it has selected.          *)
LEMMA ExportsNoHistoryKeepsReader ==
  ASSUME IInv, ReadInv, NEW q \in Readers, ExportsNoHistory(q)
  PROVE  ReadersTypeOK' /\ ReaderInv(q)'
<1> DEFINE k == request[q]
           s == selects[q]
<1>1. /\ selects' = [selects EXCEPT ![q] = << >>]
      /\ UNCHANGED <<storeVars, request, view, overtaken>>
      /\ s # << >> /\ Head(s) = "exists" /\ k.op = "export"
  BY DEF ExportsNoHistory, Selecting
<1>2. k \in Request /\ k # None /\ s \in Seq(Parts) /\ ReaderInv(q)
  BY <1>1, RequestFields DEF ReadInv, ReadersTypeOK, ReaderInv
<1>3. ReadersTypeOK'
  <2>1. << >> \in Seq(Parts)
    OBVIOUS
  <2>2. QED
    BY <1>1, <2>1 DEF ReadInv, ReadersTypeOK
<1>4. selects'[q] = << >> /\ UNCHANGED <<runs, spans, history, request, view, overtaken>>
  BY <1>1 DEF ReadInv, ReadersTypeOK, storeVars
<1>5. ExportOK(q) /\ ExportOK(q)'
  BY <1>1, <1>2, <1>4 DEF ReaderInv, ExportOK
<1>6. \A part : ToCome(q, part) => part \in {"exists", "page"}
  <2>1. 1 \in 1 .. Len(s) /\ s[1] = "exists" /\ Len(s) \in Nat
    BY <1>1, <1>2
  <2>5. 1 = Len(s) - 1 /\ s[1 + 1] = "page"
    BY <1>5, <2>1 DEF ExportOK
  <2>2. Len(s) = 2 /\ s[2] = "page"
    BY <2>1, <2>5
  <2>3. \A i \in 1 .. Len(s) : i = 1 \/ i = 2
    BY <2>2
  <2>4. QED
    BY <2>1, <2>2, <2>3 DEF ToCome
<1>7. \A part : Has(q, part)' => part \in {"exists", "page"} \/ Has(q, part)
  BY <1>4, <1>6 DEF Has, Asks
<1>8. \A part : ~ToCome(q, part)'
  BY <1>4 DEF ToCome
<1>9. ~overtaken[q] => ViewCurrent(q)'
  BY <1>2, <1>4, <1>7 DEF ReaderInv, ViewCurrent, Stored
<1>10. Has(q, "row")' => view'[q].row # None
  BY <1>1, <1>2, <1>4, <1>7 DEF ReaderInv
<1>11. QED
  BY <1>2, <1>3, <1>4, <1>5, <1>8, <1>9, <1>10 DEF ReaderInv

(* Spans change only with the row of their run. *)
LEMMA SpansStay ==
  ASSUME TablesConsistent, TablesConsistent', NEW r \in RunIds, runs'[r] = runs[r]
  PROVE  spans'[r] = spans[r]
<1>1. /\ RowsBelongToRuns(r) /\ SpansMatchTrace(r)
      /\ RowsBelongToRuns(r)' /\ SpansMatchTrace(r)'
  BY DEF TablesConsistent, TablesAgree
<1>2. QED
  BY <1>1 DEF RowsBelongToRuns, SpansMatchTrace, Stored

(* A commit that changes the run of a read marks the read overtaken.       *)
LEMMA ClientStepKeepsReaders ==
  ASSUME IInv, IInv', ReadInv, ClientStep
  PROVE  ReadInv'
<1>1. /\ UNCHANGED <<request, selects, view>>
      /\ overtaken' = [p \in Readers |->
                         \/ overtaken[p]
                         \/ request[p] # None /\ request[p].run \in ChangedRuns]
  BY DEF ClientStep
<1>2. ReadersTypeOK'
  BY <1>1 DEF ReadInv, ReadersTypeOK
<1>3. ASSUME NEW q \in Readers PROVE ReaderInv(q)'
  <2>1. ReaderInv(q)
    BY DEF ReadInv
  <2>2. \A part : /\ Has(q, part)' <=> Has(q, part)
                  /\ ToCome(q, part)' <=> ToCome(q, part)
    BY <1>1 DEF Has, ToCome, Asks
  <2>3. ASSUME request[q] # None, ~overtaken'[q] PROVE ViewCurrent(q)'
    <3>1. PICK r \in RunIds : r = request[q].run
      BY <2>3, RequestFields DEF ReadInv, ReadersTypeOK
    <3>2. ~overtaken[q] /\ runs'[r] = runs[r] /\ history'[r] = history[r]
      BY <1>1, <2>3, <3>1 DEF ChangedRuns
    <3>3. spans'[r] = spans[r]
      BY <3>2, SpansStay DEF IInv
    <3>4. ViewCurrent(q)
      BY <2>1, <2>3, <3>2 DEF ReaderInv
    <3>5. QED
      BY <1>1, <2>2, <3>1, <3>2, <3>3, <3>4 DEF ViewCurrent, Stored
  <2>4. request[q] # None /\ request[q].op = "export" => ExportOK(q)'
    BY <1>1, <2>1 DEF ReaderInv, ExportOK
  <2>5. QED
    BY <1>1, <2>1, <2>2, <2>3, <2>4 DEF ReaderInv, Asks
<1>4. QED
  BY <1>2, <1>3 DEF ReadInv

(* What one reader does is nothing to another. *)
LEMMA OtherReaderStays ==
  ASSUME ReadInv, NEW q \in Readers, UNCHANGED storeVars,
         request'[q] = request[q], selects'[q] = selects[q], view'[q] = view[q],
         overtaken'[q] = overtaken[q]
  PROVE  ReaderInv(q)'
<1>1. UNCHANGED <<runs, spans, history>>
  BY DEF storeVars
<1>2. \A part : /\ Has(q, part)' <=> Has(q, part)
                /\ ToCome(q, part)' <=> ToCome(q, part)
  BY DEF Has, ToCome, Asks
<1>3. (ExportOK(q) <=> ExportOK(q)') /\ (ViewCurrent(q) <=> ViewCurrent(q)')
  BY <1>1, <1>2 DEF ExportOK, ViewCurrent, Stored
<1>4. QED
  BY <1>2, <1>3 DEF ReadInv, ReaderInv, Asks

-----------------------------------------------------------------------------
(* The invariant of the readers.                                           *)

LEMMA InitReadInv == ReadInit => ReadInv
<1> SUFFICES ASSUME ReadInit PROVE ReadInv
  OBVIOUS
<1>1. << >> \in Seq(Parts)
  OBVIOUS
<1>2. ReadersTypeOK
  BY <1>1 DEF ReadInit, ReadersTypeOK
<1>3. ASSUME NEW q \in Readers PROVE ReaderInv(q)
  BY NoViewOK DEF ReadInit, ReaderInv, Has
<1>4. QED
  BY <1>2, <1>3 DEF ReadInv

LEMMA NextReadInv == IInv /\ IInv' /\ ReadInv /\ [ReadNext]_allVars => ReadInv'
<1> SUFFICES ASSUME IInv, IInv', ReadInv, [ReadNext]_allVars PROVE ReadInv'
  OBVIOUS
<1>1. CASE ClientStep
  BY <1>1, ClientStepKeepsReaders
<1>2. ASSUME NEW q \in Readers, Ask(q) \/ ReadStep(q) PROVE ReadInv'
  <2>1. ReadersTypeOK' /\ ReaderInv(q)'
    BY <1>2, AskKeepsReader, SelectKeepsReader, NotFoundKeepsReader, ExportsNoHistoryKeepsReader
    DEF ReadStep
  <2>2. ASSUME NEW p \in Readers, p # q PROVE ReaderInv(p)'
    <3>1. /\ UNCHANGED storeVars
          /\ request'[p] = request[p] /\ selects'[p] = selects[p] /\ view'[p] = view[p]
          /\ overtaken'[p] = overtaken[p]
      BY <1>2, <2>2
      DEF ReadInv, ReadersTypeOK, ReadStep, Ask, Select, NotFound, ExportsNoHistory
    <3>2. QED
      BY <3>1, OtherReaderStays
  <2>3. QED
    BY <2>1, <2>2 DEF ReadInv
<1>3. CASE UNCHANGED allVars
  <2>1. UNCHANGED storeVars /\ UNCHANGED <<request, selects, view, overtaken>>
    BY <1>3 DEF allVars, storeVars
  <2>2. QED
    BY <2>1, OtherReaderStays DEF ReadInv, ReadersTypeOK
<1>4. QED
  BY <1>1, <1>2, <1>3 DEF ReadNext

(* Beside readers, the writing clients behave as without them. *)
THEOREM ReadersDoNotDisturb == ReadSpec => Spec
<1>1. ReadInit => Init
  BY DEF ReadInit
<1>2. [ReadNext]_allVars => [Next]_vars
  BY DEF ReadNext, ClientStep, Ask, ReadStep, Select, NotFound, ExportsNoHistory,
         allVars, storeVars, vars
<1>3. QED
  BY <1>1, <1>2, PTL DEF ReadSpec, Spec

THEOREM ReadInvariance == ReadSpec => [](IInv /\ ReadInv)
<1>1. ReadSpec => []IInv
  BY ReadersDoNotDisturb, Invariance, PTL
<1>2. QED
  BY <1>1, InitReadInv, NextReadInv, PTL DEF ReadSpec

(* Requests, SELECTs to come and views keep their types. *)
THEOREM ReadTypes == ReadSpec => []ReadTypeOK
<1>1. ReadInv => ReadTypeOK
  <2> SUFFICES ASSUME ReadInv, NEW q \in Readers
               PROVE  /\ request[q] \in Request \cup {None}
                      /\ \A i \in 1 .. Len(selects[q]) : selects[q][i] \in Parts
                      /\ request[q] = None => ~Selecting(q)
                      /\ view[q].row \in Row \cup {None} /\ view[q].trace \in Traces \cup {None}
                      /\ view[q].spans \subseteq SpanIds
                      /\ Answered(q) /\ request[q].op # "preview"
                         /\ request[q].op # "decision_history" => view[q].row # None
    BY DEF ReadTypeOK
  <2>1. ReaderInv(q) /\ request[q] \in Request \cup {None} /\ selects[q] \in Seq(Parts)
    BY DEF ReadInv, ReadersTypeOK
  <2>2. Answered(q) /\ request[q].op # "preview" /\ request[q].op # "decision_history"
          => Has(q, "row")
    <3> SUFFICES ASSUME Answered(q), request[q].op # "preview",
                        request[q].op # "decision_history"
                 PROVE  Has(q, "row")
      OBVIOUS
    <3>1. request[q] \in Request /\ request[q] # None /\ selects[q] = << >>
      BY <2>1 DEF Answered, Selecting
    <3>2. request[q].op \in {"get_run", "error_timeline", "export"}
      BY <3>1, RequestFields DEF ReadOpNames
    <3>3. ~ToCome(q, "row")
      BY <3>1 DEF ToCome
    <3>4. Asks(request[q].op, "row")
      BY <3>2, SelectsFacts DEF ReadOpNames
    <3>5. QED
      BY <3>1, <3>3, <3>4 DEF Has
  <2>3. QED
    BY <2>1, <2>2 DEF ReaderInv, ViewOK, Selecting
<1>2. QED
  BY <1>1, ReadInvariance, PTL

(* storage.py:1130, main.py:577 and models.py:192, for any readers, any    *)
(* clients and histories of any length: an answer has its row, is of one   *)
(* trace unless its run was changed meanwhile, and an exported bundle is   *)
(* one that an import accepts.                                             *)
THEOREM AnswersStaySound == ReadSpec => []AnswersAreSound
<1>1. IInv /\ ReadInv => AnswersAreSound
  <2> SUFFICES ASSUME IInv, ReadInv, NEW q \in Readers, Answered(q),
                      request[q].op \in {"get_run", "error_timeline", "export"}
               PROVE  LET v == view[q]
                      IN  /\ v.row # None
                          /\ ~overtaken[q] =>
                               /\ v.spans = SpansOf[v.row.trace]
                               /\ request[q].op # "error_timeline" =>
                                    v.tool_count = Cardinality(SpansOf[v.row.trace] \cap ToolSpans)
                               /\ request[q].op = "export" => v.trace = v.row.trace
                          /\ request[q].op = "export" =>
                               /\ Stamped(ReviewIn(v).decision, ReviewIn(v).decision_at)
                               /\ Len(ReviewIn(v).decision_history) <= HistoryLimit
    BY DEF AnswersAreSound
  <2> DEFINE k == request[q]
             v == view[q]
             r == k.run
  <2>1. /\ k # None /\ k \in Request /\ r \in RunIds /\ k.op \in ReadOpNames
        /\ \A part : ~ToCome(q, part)
    BY RequestFields DEF Answered, Selecting, ReadInv, ReadersTypeOK, ToCome
  <2>2. /\ Has(q, "row") /\ Has(q, "spans")
        /\ k.op # "error_timeline" => Has(q, "tools")
        /\ k.op = "export" => Has(q, "trace")
    BY <2>1, SelectsFacts DEF Has
  <2>3. ReaderInv(q)
    BY DEF ReadInv
  <2>4. v.row # None /\ Stamped(v.row.decision, v.row.decision_at)
    BY <2>1, <2>2, <2>3 DEF ReaderInv, ViewOK
  <2>5. ASSUME ~overtaken[q]
        PROVE  /\ v.spans = SpansOf[v.row.trace]
               /\ k.op # "error_timeline" =>
                    v.tool_count = Cardinality(SpansOf[v.row.trace] \cap ToolSpans)
               /\ k.op = "export" => v.trace = v.row.trace
    <3>1. ViewCurrent(q) /\ v.row = runs[r] /\ Stored(r)
      BY <2>1, <2>2, <2>3, <2>4, <2>5 DEF ReaderInv, ViewCurrent, Stored
    <3>2. spans[r] = SpansOf[runs[r].trace]
      BY <2>1, <3>1 DEF IInv, TablesConsistent, TablesAgree, SpansMatchTrace
    <3>3. QED
      BY <2>2, <3>1, <3>2 DEF ViewCurrent
  <2>6. k.op = "export" =>
          /\ Stamped(ReviewIn(v).decision, ReviewIn(v).decision_at)
          /\ Len(ReviewIn(v).decision_history) <= HistoryLimit
    <3>1. k.op = "export" => v.history \in Seq(Change) /\ Len(v.history) <= HistoryPage
      BY <2>1, <2>3 DEF ReaderInv, ExportOK
    <3>2. k.op = "export" => Len(v.history) <= HistoryLimit
      BY <3>1, ReadAssumption, ClientAssumption
    <3>3. QED
      BY <2>4, <3>2 DEF ReviewIn
  <2>7. QED
    BY <2>4, <2>5, <2>6
<1>2. QED
  BY <1>1, ReadInvariance, PTL

(* A preview that nothing overtook is what the tables say. *)
LEMMA PreviewIsCurrent ==
  ASSUME IInv, ReadInv, NEW q \in Readers, Answered(q), request[q].op = "preview", ~overtaken[q]
  PROVE  /\ request[q].run \in RunIds /\ request[q].review \in Bundled
         /\ view[q].row = runs[request[q].run]
         /\ view[q].history = history[request[q].run]
<1>1. /\ request[q] # None /\ request[q] \in Request /\ \A part : ~ToCome(q, part)
  BY DEF Answered, Selecting, ReadInv, ReadersTypeOK, ToCome
<1>2. Has(q, "row") /\ Has(q, "history")
  BY <1>1, RequestFields, SelectsFacts DEF Has
<1>3. ViewCurrent(q)
  BY <1>1 DEF ReadInv, ReaderInv
<1>4. QED
  BY <1>1, <1>2, <1>3, RequestFields DEF ViewCurrent

(* What a restore writes, as the preview of the same bundle resolved it.   *)
LEMMA RestoreAsPreviewed ==
  ASSUME IInv, ReadInv, NEW q \in Readers, NEW c \in Clients,
         Answered(q), request[q].op = "preview", ~overtaken[q], CommitRestore(c),
         call[c].run = request[q].run, call[c].trace = request[q].trace,
         call[c].review = request[q].review, call[c].policy = request[q].policy,
         call[c].run \notin stale[c]
  PROVE  /\ ReviewOf(call[c].run)' = Resolved(request[q], view[q])
         /\ runs'[call[c].run].trace = request[q].trace
<1> DEFINE k == call[c]
           r == k.run
           selected == SelectedReview(k, seen[c])
<1>1. /\ pc[c] = "commit" /\ k \in Call /\ k.op = "restore"
      /\ Restored(r, k.trace, selected) /\ call' = call
  BY DEF CommitRestore, Committing, Committed, IInv, TypeOK, ClientsTypeOK
<1>2. r \in RunIds /\ k.trace \in Traces
  BY <1>1, CallFields
<1>3. selected \in Review
  BY <1>1, SelectedReviewType DEF IInv, TypeOK, ClientsTypeOK, ReadsAreCurrent
<1>4. Upserted(r, k.trace) \in Row /\ Upserted(r, k.trace).trace = k.trace
  <2>1. Stored(r) => runs[r] \in Row
    BY <1>2 DEF IInv, TypeOK, TablesTypeOK, Stored
  <2>2. QED
    BY <1>2, <2>1, UpsertedIsRow DEF Upserted, Row, IInv, TypeOK
<1>5. selected = Resolved(request[q], view[q])
  <2>1. view[q].row = runs[r] /\ view[q].history = history[r]
    BY PreviewIsCurrent
  <2>2. CASE k.policy = "keep-local"
    <3>1. /\ seen[c].runs[r] = runs[r]
          /\ Stored(r) => seen[c].history[r] = history[r]
      BY <1>1, <1>2, <2>2, CommitsRestOnReads DEF IInv, ReadsFirst, ReadSet
    <3>2. QED
      BY <2>1, <2>2, <3>1 DEF SelectedReview, Resolved, ReviewIn, Stored
  <2>3. CASE k.policy # "keep-local"
    BY <2>3 DEF SelectedReview, Resolved
  <2>4. QED
    BY <2>2, <2>3
<1> HIDE DEF selected
<1>6. /\ runs'[r] = Reviewed(Upserted(r, k.trace), selected)
      /\ history'[r] = selected.decision_history
  BY <1>1, <1>2 DEF Restored, IInv, TypeOK, TablesTypeOK
<1>7. /\ runs'[r].label = selected.label /\ runs'[r].decision = selected.decision
      /\ runs'[r].decision_at = selected.decision_at /\ runs'[r].trace = k.trace
  BY <1>4, <1>6 DEF Reviewed, Row
<1>8. ReviewOf(r)' = selected
  BY <1>1, <1>3, <1>6, <1>7 DEF ReviewOf, Review
<1>9. QED
  BY <1>5, <1>7, <1>8

(* README.md:99: a preview that no commit overtook tells what a restore of *)
(* the bundle writes, whatever else goes on in the library.                *)
THEOREM PreviewsAlwaysComeTrue == ReadSpec => PreviewsComeTrue
<1>1. IInv /\ ReadInv =>
        [\A q \in Readers, c \in Clients :
            /\ Answered(q) /\ request[q].op = "preview" /\ ~overtaken[q]
            /\ CommitRestore(c)
            /\ call[c].run = request[q].run /\ call[c].trace = request[q].trace
            /\ call[c].review = request[q].review /\ call[c].policy = request[q].policy
            /\ call[c].run \notin stale[c]
            => LET r == call[c].run
               IN  ReviewOf(r)' = Resolved(request[q], view[q])]_allVars
  BY RestoreAsPreviewed
<1>2. QED
  BY <1>1, ReadInvariance, PTL DEF PreviewsComeTrue

(* A preview without conflicts is of a restore without consequences.       *)
THEOREM NoConflictsNoChanges == ReadSpec => NoConflictNoChange
<1>1. IInv /\ ReadInv =>
        [\A q \in Readers, c \in Clients :
            /\ Answered(q) /\ request[q].op = "preview" /\ ~overtaken[q]
            /\ view[q].row # None /\ ~HasConflicts(request[q], view[q])
            /\ CommitRestore(c)
            /\ call[c].run = request[q].run /\ call[c].trace = request[q].trace
            /\ call[c].review = request[q].review /\ call[c].policy = request[q].policy
            /\ call[c].run \notin stale[c]
            => LET r == call[c].run
               IN  ReviewOf(r)' = ReviewOf(r) /\ runs'[r].trace = runs[r].trace]_allVars
  <2> SUFFICES ASSUME IInv, ReadInv, NEW q \in Readers, NEW c \in Clients,
                      Answered(q), request[q].op = "preview", ~overtaken[q],
                      view[q].row # None, ~HasConflicts(request[q], view[q]),
                      CommitRestore(c),
                      call[c].run = request[q].run, call[c].trace = request[q].trace,
                      call[c].review = request[q].review, call[c].policy = request[q].policy,
                      call[c].run \notin stale[c]
               PROVE  /\ ReviewOf(call[c].run)' = ReviewOf(call[c].run)
                      /\ runs'[call[c].run].trace = runs[call[c].run].trace
    OBVIOUS
  <2>1. /\ ReviewOf(call[c].run)' = Resolved(request[q], view[q])
        /\ runs'[call[c].run].trace = request[q].trace
    BY RestoreAsPreviewed
  <2>2. view[q].row = runs[call[c].run] /\ view[q].history = history[call[c].run]
    BY PreviewIsCurrent
  <2>3. ReviewIn(view[q]) = ReviewOf(call[c].run)
    BY <2>2 DEF ReviewIn, ReviewOf
  <2>4. ReviewIn(view[q]) = request[q].review /\ view[q].row.trace = request[q].trace
    BY DEF HasConflicts
  <2>5. QED
    BY <2>1, <2>2, <2>3, <2>4 DEF Resolved
<1>2. QED
  BY <1>1, ReadInvariance, PTL DEF NoConflictNoChange
=============================================================================
