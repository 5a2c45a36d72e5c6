--------------------------- MODULE AtomicStoreProofs ---------------------------
(***************************************************************************)
(* The store as documented is type correct, keeps its tables consistent    *)
(* and explains every decision by its history, for every set of runs,      *)
(* traces, labels, decisions and bundles; and so it stays while a reviewer *)
(* walks through the queue, decides on it as a whole or asks for a report, *)
(* for every size of a page.  The walk misses no run and the report adds   *)
(* up.                                                                     *)
(***************************************************************************)
EXTENDS LibraryReport, LibraryProofs, FiniteSetTheorems, FunctionTheorems

(* The three invariants together: histories are only explained in tables   *)
(* that agree, since a new run must start with an empty history.           *)
IInv == TypeOK /\ TablesAgree /\ HistoriesExplain

(* The review a keep-local restore writes back is a review.                *)
LEMMA ReviewOfIsReview ==
  ASSUME TablesTypeOK, NEW r \in RunIds, Stored(r)
  PROVE  ReviewOf(r) \in Review
BY DEF TablesTypeOK, Stored, ReviewOf, Review, Row

(* The empty library satisfies the invariant. *)
LEMMA InitIInv == Init => IInv
BY DEF Init, TablesInit, IInv, TypeOK, TablesTypeOK, TablesAgree, HistoriesExplain,
       HistoryExplains, Stored, RowsBelongToRuns, SpansMatchTrace, DecisionStamped,
       ComparisonsBelongToRuns

(* Every operation keeps the invariant. *)
LEMMA NextIInv == IInv /\ [Next]_vars => IInv'
<1> SUFFICES ASSUME IInv, [Next]_vars PROVE IInv'
  OBVIOUS
<1> USE DEF IInv, TypeOK
<1>1. ASSUME NEW r \in RunIds, NEW trace \in Traces, Ingest(r, trace)
      PROVE  IInv'
  <2>1. Ingested(r, trace) /\ now' \in Nat
    BY <1>1 DEF Ingest, TablesTypeOK
  <2>2. QED
    BY <2>1, IngestedTypes, IngestedAgrees, IngestedExplains DEF HistoriesExplain
<1>2. ASSUME NEW r \in RunIds, NEW trace \in Traces, NEW review \in Bundled,
             NEW policy \in {"use-bundle", "keep-local"},
             Restore(r, trace, review, policy)
      PROVE  IInv'
  <2>1. now' \in Nat
    BY <1>2 DEF Restore, TablesTypeOK
  <2>2. PICK selected \in Review :
           /\ Restored(r, trace, selected)
           /\ Stamped(selected.decision, selected.decision_at)
           /\ Explains(selected.decision_history, selected.decision)
    <3>1. CASE policy = "keep-local" /\ Stored(r)
      BY <1>2, <3>1, ReviewOfIsReview
      DEF Restore, ReviewOf, HistoriesExplain, HistoryExplains, TablesAgree, DecisionStamped
    <3>2. CASE ~(policy = "keep-local" /\ Stored(r))
      BY <1>2, <3>2, BundleAssumption, BundledExplains DEF Restore
    <3>3. QED
      BY <3>1, <3>2
  <2>3. QED
    BY <2>1, <2>2, RestoredTypes, RestoredAgrees, RestoredExplains DEF HistoriesExplain
<1>3. ASSUME NEW r \in RunIds, NEW label \in Labels \cup {None},
             NEW decision \in Decisions \cup {None},
             UpdateAnnotations(r, label, decision)
      PROVE  IInv'
  <2>1. /\ Stored(r) /\ runs[r].decision \in Decisions /\ now' \in Nat
        /\ Annotated(r, label, decision, runs[r].decision)
    BY <1>3 DEF UpdateAnnotations, TablesTypeOK, Stored, Row
  <2>2. TablesTypeOK'
    BY <2>1, AnnotatedTypes
  <2>3. TablesAgree'
    BY <2>1, AnnotatedAgrees
  <2>4. HistoriesExplain'
    BY <2>1, AnnotatedExplains DEF HistoriesExplain
  <2>5. QED
    BY <2>2, <2>3, <2>4
<1>4. ASSUME NEW R \in SUBSET RunIds, NEW label \in Labels, BulkSetLabels(R, label)
      PROVE  IInv'
  <2>1. BulkLabeled(R, label) /\ now' \in Nat
    BY <1>4 DEF BulkSetLabels, TablesTypeOK
  <2>2. QED
    BY <2>1, BulkLabeledTypes, BulkLabeledAgrees, BulkLabeledExplains DEF HistoriesExplain
<1>5. ASSUME NEW R \in SUBSET RunIds, NEW decision \in Decisions,
             BulkSetDecisions(R, decision)
      PROVE  IInv'
  <2>1. BulkDecided(R, decision, runs) /\ now' \in Nat
    BY <1>5 DEF BulkSetDecisions, TablesTypeOK
  <2>2. TablesTypeOK'
    BY <2>1, BulkDecidedTypes DEF TablesTypeOK
  <2>3. TablesAgree'
    BY <2>1, BulkDecidedAgrees DEF Changing, Stored
  <2>4. HistoriesExplain'
    BY <2>1, BulkDecidedExplains DEF HistoriesExplain
  <2>5. QED
    BY <2>2, <2>3, <2>4
<1>6. ASSUME NEW R \in SUBSET RunIds, NEW cutoff \in Cutoffs, NEW keep_labeled \in BOOLEAN,
             PruneRuns(R, cutoff, keep_labeled)
      PROVE  IInv'
  <2>1. PICK gone \in SUBSET RunIds : Deleted(gone)
    BY <1>6 DEF PruneRuns
  <2>2. now' \in Nat
    BY <1>6 DEF PruneRuns, TablesTypeOK
  <2>3. QED
    BY <2>1, <2>2, DeletedTypes, DeletedAgrees, DeletedExplains DEF HistoriesExplain
<1>7. ASSUME NEW comparison \in Comparison, SaveComparison(comparison)
      PROVE  IInv'
  <2>1. /\ ComparisonSaved(comparison) /\ now' \in Nat
        /\ Stored(comparison.run_a) /\ Stored(comparison.run_b)
    BY <1>7 DEF SaveComparison, TablesTypeOK
  <2>2. HistoriesExplain'
    BY <2>1, UnchangedExplains DEF HistoriesExplain, ComparisonSaved
  <2>3. QED
    BY <2>1, <2>2, ComparisonSavedTypes, ComparisonSavedAgrees
<1>8. ASSUME NEW id \in ComparisonIds, DeleteComparison(id)
      PROVE  IInv'
  <2>1. ComparisonDeleted(id) /\ now' \in Nat
    BY <1>8 DEF DeleteComparison, TablesTypeOK
  <2>2. HistoriesExplain'
    BY <2>1, UnchangedExplains DEF HistoriesExplain, ComparisonDeleted
  <2>3. QED
    BY <2>1, <2>2, ComparisonDeletedTypes, ComparisonDeletedAgrees
<1>9. ASSUME UNCHANGED tables, now' \in Nat
      PROVE  IInv'
  <2>1. TablesTypeOK'
    BY <1>9 DEF TablesTypeOK, tables
  <2>2. HistoriesExplain'
    BY <1>9, UnchangedExplains DEF HistoriesExplain, tables
  <2>3. QED
    BY <1>9, <2>1, <2>2, UnchangedAgrees
<1>10. Tick \/ UNCHANGED vars => UNCHANGED tables /\ now' \in Nat
  BY DEF Tick, vars, tables, TablesTypeOK
<1>11. QED
  BY <1>1, <1>2, <1>3, <1>4, <1>5, <1>6, <1>7, <1>8, <1>9, <1>10 DEF Next

(* Every reachable state of the documented store satisfies the invariant.  *)
THEOREM Invariance == Spec => []IInv
BY InitIInv, NextIInv, PTL DEF Spec

(* The store as documented is type correct. *)
THEOREM TypeCorrect == Spec => []TypeOK
BY Invariance, PTL DEF IInv

(* The tables of the store as documented never contradict each other. *)
THEOREM TablesAlwaysAgree == Spec => []TablesAgree
BY Invariance, PTL DEF IInv

(* Performed one at a time, the operations leave every decision explained  *)
(* by its history (storage.py:9).                                          *)
THEOREM HistoriesAlwaysExplain == Spec => []HistoriesExplain
BY Invariance, PTL DEF IInv

-----------------------------------------------------------------------------
(***************************************************************************)
(* The order of the queue.                                                 *)
(***************************************************************************)

Class(r) == IF Status(r) = "error" THEN 0 ELSE 1
Start(r) == StartedAt[runs[r].trace]

(* ORDER BY compares the three columns one after the other. *)
LEMMA BeforeByColumns ==
  ASSUME NEW r, NEW s
  PROVE  Before(r, s) <=>
           \/ Class(r) < Class(s)
           \/ Class(r) = Class(s) /\ Start(r) < Start(s)
           \/ Class(r) = Class(s) /\ Start(r) = Start(s) /\ IdOrder[r] < IdOrder[s]
<1> DEFINE Agree(i) == \A j \in 1 .. i - 1 : Key(r)[j] = Key(s)[j]
<1>1. /\ Key(r)[1] = Class(r) /\ Key(r)[2] = Start(r) /\ Key(r)[3] = IdOrder[r]
      /\ Key(s)[1] = Class(s) /\ Key(s)[2] = Start(s) /\ Key(s)[3] = IdOrder[s]
  BY DEF Key, Class, Start
<1>2. /\ 1 .. 3 = {1, 2, 3}
      /\ 1 .. 1 - 1 = {} /\ 1 .. 2 - 1 = {1} /\ 1 .. 3 - 1 = {1, 2}
  OBVIOUS
<1>3. /\ Agree(1)
      /\ Agree(2) <=> Key(r)[1] = Key(s)[1]
      /\ Agree(3) <=> Key(r)[1] = Key(s)[1] /\ Key(r)[2] = Key(s)[2]
  BY <1>2
<1>4. Before(r, s) <=> \E i \in {1, 2, 3} : Key(r)[i] < Key(s)[i] /\ Agree(i)
  BY <1>2 DEF Before
<1> HIDE DEF Agree
<1>5. QED
  BY <1>1, <1>3, <1>4

(* The runs of a queue are stored, and their keys are numbers. *)
LEMMA QueuedRuns ==
  ASSUME TypeOK, NEW filter, NEW r \in Unreviewed(filter)
  PROVE  r \in RunIds /\ Class(r) \in Nat /\ Start(r) \in Nat /\ IdOrder[r] \in Nat
BY QueueAssumption
DEF Unreviewed, InQueue, Stored, TypeOK, TablesTypeOK, Row, Class, Start

(* IDs break every tie, so the order is total. *)
LEMMA TotalOrder ==
  ASSUME TypeOK, NEW filter, NEW r \in Unreviewed(filter), NEW s \in Unreviewed(filter)
  PROVE  /\ ~Before(r, r)
         /\ r # s => Before(r, s) \/ Before(s, r)
<1>1. r # s => IdOrder[r] # IdOrder[s]
  BY QueuedRuns, QueueAssumption DEF IsInjective
<1>2. QED
  BY <1>1, QueuedRuns, BeforeByColumns

LEMMA TransitiveOrder ==
  ASSUME TypeOK, NEW filter, NEW r \in Unreviewed(filter),
         NEW s \in Unreviewed(filter), NEW t \in Unreviewed(filter),
         Before(r, s), Before(s, t)
  PROVE  Before(r, t)
BY QueuedRuns, BeforeByColumns

(***************************************************************************)
(* Places.                                                                 *)
(***************************************************************************)

Earlier(filter, r) == {s \in Unreviewed(filter) : Before(s, r)}

LEMMA QueueIsFinite ==
  ASSUME NEW filter
  PROVE  /\ IsFiniteSet(Unreviewed(filter)) /\ Cardinality(Unreviewed(filter)) \in Nat
         /\ \A S \in SUBSET Unreviewed(filter) : IsFiniteSet(S) /\ Cardinality(S) \in Nat
<1>1. \A S \in SUBSET RunIds : IsFiniteSet(S) /\ Cardinality(S) \in Nat
  BY QueueAssumption, FS_Subset, FS_CardinalityType
<1>2. QED
  BY <1>1 DEF Unreviewed

LEMMA PlaceIsNumber ==
  ASSUME NEW filter, NEW r
  PROVE  Place(filter, r) \in Nat /\ Place(filter, r)' \in Nat
<1>1. \A S \in SUBSET RunIds : Cardinality(S) \in Nat
  BY QueueAssumption, FS_Subset, FS_CardinalityType
<1>2. Unreviewed(filter) \subseteq RunIds /\ Unreviewed(filter)' \subseteq RunIds
  BY DEF Unreviewed
<1>3. QED
  BY <1>1, <1>2 DEF Place

(* What comes before another run has the smaller place. *)
LEMMA PlacesFollowOrder ==
  ASSUME TypeOK, NEW filter, NEW r \in Unreviewed(filter),
         NEW s \in Unreviewed(filter), Before(r, s)
  PROVE  Place(filter, r) < Place(filter, s)
<1>1. /\ Earlier(filter, r) \subseteq Earlier(filter, s)
      /\ r \in Earlier(filter, s) /\ r \notin Earlier(filter, r)
  BY TransitiveOrder, TotalOrder DEF Earlier
<1>2. /\ IsFiniteSet(Earlier(filter, s))
      /\ Cardinality(Earlier(filter, r)) \in Nat /\ Cardinality(Earlier(filter, s)) \in Nat
  BY QueueIsFinite DEF Earlier
<1>3. Cardinality(Earlier(filter, r)) < Cardinality(Earlier(filter, s))
  BY <1>1, <1>2, FS_Subset
<1>4. QED
  BY <1>2, <1>3 DEF Place, Earlier

LEMMA PlacesAreInRange ==
  ASSUME TypeOK, NEW filter, NEW r \in Unreviewed(filter)
  PROVE  Place(filter, r) \in 1 .. Cardinality(Unreviewed(filter))
<1>1. Earlier(filter, r) \subseteq Unreviewed(filter) /\ r \notin Earlier(filter, r)
  BY TotalOrder DEF Earlier
<1>2. /\ Cardinality(Earlier(filter, r)) \in Nat
      /\ Cardinality(Earlier(filter, r)) < Cardinality(Unreviewed(filter))
  BY <1>1, QueueIsFinite, FS_Subset
<1>3. QED
  BY <1>2, QueueIsFinite DEF Place, Earlier

LEMMA PlacesDiffer ==
  ASSUME TypeOK, NEW filter, NEW r \in Unreviewed(filter),
         NEW s \in Unreviewed(filter), Place(filter, r) = Place(filter, s)
  PROVE  r = s
<1>1. Place(filter, r) \in Int /\ Place(filter, s) \in Int
  BY PlacesAreInRange
<1>2. QED
  BY <1>1, TotalOrder, PlacesFollowOrder

(* Every place up to the length of the queue is taken. *)
LEMMA PlacesAreTaken ==
  ASSUME TypeOK, NEW filter, NEW i \in 1 .. Cardinality(Unreviewed(filter))
  PROVE  \E r \in Unreviewed(filter) : Place(filter, r) = i
<1> DEFINE U == Unreviewed(filter)
           n == Cardinality(U)
           f == [r \in U |-> Place(filter, r)]
<1>1. n \in Nat /\ IsFiniteSet(U)
  BY QueueIsFinite
<1>2. IsFiniteSet(1 .. n) /\ Cardinality(1 .. n) = n
  BY <1>1, FS_Interval
<1>3. f \in Injection(U, 1 .. n)
  BY PlacesAreInRange, PlacesDiffer DEF Injection, IsInjective
<1> HIDE DEF f
<1>4. f \in Surjection(U, 1 .. n)
  BY <1>1, <1>2, <1>3, FS_Injection
<1>5. QED
  BY <1>4 DEF Surjection, f

(* The queue lists every unreviewed run at its place. *)
LEMMA QueueByPlace ==
  ASSUME TypeOK, NEW filter
  PROVE  /\ Queue(filter) \in Seq(Unreviewed(filter))
         /\ Len(Queue(filter)) = Cardinality(Unreviewed(filter))
         /\ \A i \in 1 .. Cardinality(Unreviewed(filter)) :
               /\ Queue(filter)[i] \in Unreviewed(filter)
               /\ Place(filter, Queue(filter)[i]) = i
<1> DEFINE n == Cardinality(Unreviewed(filter))
<1>1. n \in Nat
  BY QueueIsFinite
<1>2. \A i \in 1 .. n : /\ Queue(filter)[i] \in Unreviewed(filter)
                        /\ Place(filter, Queue(filter)[i]) = i
  BY PlacesAreTaken DEF Queue
<1>3. Queue(filter) \in [1 .. n -> Unreviewed(filter)]
  BY <1>2 DEF Queue
<1>4. QED
  BY <1>1, <1>2, <1>3

(* A page holds the runs of PageSize places after its offset. *)
LEMMA RowsOfPage ==
  ASSUME TypeOK, NEW filter, NEW offset \in Nat
  PROVE  /\ Rows(filter, offset) \in Seq(RunIds)
         /\ IsInjective(Rows(filter, offset))
         /\ Len(Rows(filter, offset)) <= PageSize
         /\ ToSet(Rows(filter, offset)) =
              {r \in Unreviewed(filter) : /\ offset < Place(filter, r)
                                          /\ Place(filter, r) <= offset + PageSize}
<1> DEFINE U == Unreviewed(filter)
           n == Cardinality(U)
           queue == Queue(filter)
           last == IF offset + PageSize < n THEN offset + PageSize ELSE n
           rows == Rows(filter, offset)
           size == IF offset < last THEN last - offset ELSE 0
<1>1. n \in Nat /\ PageSize \in Nat /\ last \in Nat /\ size \in Nat
  BY QueueIsFinite, QueueAssumption
<1>2. /\ queue \in Seq(U) /\ Len(queue) = n
      /\ \A i \in 1 .. n : queue[i] \in U /\ Place(filter, queue[i]) = i
  BY QueueByPlace
<1>3. rows = SubSeq(queue, offset + 1, last)
  BY <1>2 DEF Rows
<1>4. /\ Len(rows) = size /\ DOMAIN rows = 1 .. size
      /\ \A i \in 1 .. size : rows[i] = queue[offset + i]
  <2> HIDE DEF queue, n
  <2>1. rows = [i \in 1 .. size |-> queue[offset + i]]
    BY <1>1, <1>2, <1>3
  <2>2. QED
    BY <2>1, <1>1
<1> HIDE DEF queue, n, last, rows
<1>5. \A i \in 1 .. size : /\ offset + i \in 1 .. n
                           /\ rows[i] \in U /\ Place(filter, rows[i]) = offset + i
  BY <1>1, <1>2, <1>4 DEF last
<1>6. size <= PageSize
  BY <1>1 DEF last
<1>7. rows \in Seq(RunIds) /\ IsInjective(rows)
  <2>1. U \subseteq RunIds
    BY DEF Unreviewed
  <2>2. \A i, j \in 1 .. size : rows[i] = rows[j] => i = j
    BY <1>1, <1>5
  <2>3. rows = [i \in 1 .. size |-> rows[i]]
    BY <1>1, <1>2, <1>3, <1>4
  <2>4. rows \in Seq(RunIds)
    <3>1. \A i \in 1 .. size : rows[i] \in RunIds
      BY <2>1, <1>5
    <3>2. [i \in 1 .. size |-> rows[i]] \in Seq(RunIds)
      BY <3>1, <1>1
    <3>3. QED
      BY <3>2, <2>3
  <2>5. QED
    BY <2>2, <2>4, <1>4 DEF IsInjective
<1>8. ASSUME NEW r \in U, offset < Place(filter, r), Place(filter, r) <= offset + PageSize
      PROVE  r \in ToSet(rows)
  <2> DEFINE i == Place(filter, r) - offset
  <2>1. Place(filter, r) \in 1 .. n
    BY PlacesAreInRange DEF n
  <2>2. i \in 1 .. size
    BY <2>1, <1>1, <1>8 DEF last
  <2>3. Place(filter, rows[i]) = Place(filter, r)
    BY <2>1, <2>2, <1>5
  <2>4. rows[i] = r
    BY <2>2, <2>3, <1>5, PlacesDiffer
  <2>5. QED
    BY <2>2, <2>4, <1>4 DEF ToSet
<1>9. ASSUME NEW r \in ToSet(rows)
      PROVE  r \in U /\ offset < Place(filter, r) /\ Place(filter, r) <= offset + PageSize
  <2>1. PICK i \in 1 .. size : r = rows[i]
    BY <1>4 DEF ToSet
  <2>2. QED
    BY <2>1, <1>1, <1>5, <1>6
<1>10. QED
  BY <1>4, <1>6, <1>7, <1>8, <1>9 DEF rows

(***************************************************************************)
(* The session.                                                            *)
(***************************************************************************)

(* A page and a list have the fields their readers use. *)
SessionOK ==
  /\ session # None => "kind" \in DOMAIN session
  /\ OnPage => /\ session = [kind |-> "page", filter |-> session.filter,
                              offset |-> session.offset, rows |-> session.rows,
                              total |-> session.total]
               /\ session.filter \in Filters /\ session.offset \in Nat
               /\ session.rows \in Seq(RunIds) /\ IsInjective(session.rows)
               /\ Len(session.rows) <= PageSize
               /\ session.total \in Nat \cup {None}
  /\ HasList => session.ids \in (SUBSET RunIds) \ {{}}

SinceOK ==
  /\ since = [shown |-> since.shown, waiting |-> since.waiting,
              left |-> since.left, commits |-> since.commits]
  /\ since.waiting \subseteq RunIds /\ since.shown \subseteq RunIds
  /\ since.left \in BOOLEAN /\ since.commits \in Nat

(* The rows in reach of the page have been shown, and a page counted as    *)
(* the last one has shown them all.                                        *)
WalkInv ==
  OnPage /\ ~since.left =>
    /\ since.waiting \subseteq Unreviewed(session.filter)
    /\ \A r \in since.waiting :
          Place(session.filter, r) <= session.offset + PageSize => r \in since.shown

(* A list is the queue until the library changes. *)
ListInv ==
  HasList /\ since.commits = 0 => session.ids = Unreviewed(session.filter)

QueueInv == IInv /\ SessionOK /\ SinceOK /\ WalkInv /\ WalksShowAll /\ ListInv

LEMMA NothingIsSince ==
  /\ Nothing = [shown |-> Nothing.shown, waiting |-> Nothing.waiting,
                left |-> Nothing.left, commits |-> Nothing.commits]
  /\ Nothing.waiting = {} /\ Nothing.shown = {} /\ Nothing.left \in BOOLEAN
  /\ Nothing.commits = 0
BY DEF Nothing

LEMMA InitQueueInv == QueueInit => QueueInv
<1> SUFFICES ASSUME QueueInit PROVE QueueInv
  OBVIOUS
<1>1. IInv /\ session = None /\ since = Nothing
  BY InitIInv DEF QueueInit
<1>2. SinceOK
  BY <1>1, NothingIsSince DEF SinceOK
<1>3. QED
  BY <1>1, <1>2 DEF QueueInv, SessionOK, WalkInv, ListInv, WalksShowAll, Shown, OnPage, HasList

(* Any operation keeps the three facts about the tables. *)
LEMMA StepsKeepIInv ==
  ASSUME IInv, [Next]_vars
  PROVE  IInv'
BY NextIInv

(* A read of the queue changes no table, hence no place in it. *)
LEMMA UnchangedQueue ==
  ASSUME UNCHANGED vars, NEW filter
  PROVE  /\ Unreviewed(filter)' = Unreviewed(filter)
         /\ \A r : Place(filter, r)' = Place(filter, r)
<1>1. runs' = runs
  BY DEF vars
<1>2. Unreviewed(filter)' = Unreviewed(filter)
  BY <1>1 DEF Unreviewed, InQueue, Stored, Status
<1>3. \A r, s : Before(r, s)' = Before(r, s)
  BY <1>1 DEF Before, Key, Status
<1>4. QED
  BY <1>2, <1>3 DEF Place

(* Turning or reloading the page keeps the invariant, since the offset     *)
(* never goes beyond the rows shown.                                       *)
LEMMA GoToKeepsInv ==
  ASSUME QueueInv, OnPage, NEW offset \in Nat, offset <= session.offset + PageSize,
         GoTo(offset)
  PROVE  QueueInv'
<1> USE DEF QueueInv, IInv
<1>1. PICK f \in Filters : f = session.filter
  BY DEF SessionOK
<1>2. /\ UNCHANGED vars
      /\ session' = [kind |-> "page", filter |-> f, offset |-> offset,
                     rows |-> Rows(f, offset), total |-> None]
      /\ since' = [since EXCEPT !.shown = @ \cup ToSet(Rows(f, offset))]
  BY <1>1 DEF GoTo, Select
<1>3. IInv'
  BY <1>2, StepsKeepIInv
<1>4. /\ Rows(f, offset) \in Seq(RunIds) /\ IsInjective(Rows(f, offset))
      /\ Len(Rows(f, offset)) <= PageSize
      /\ ToSet(Rows(f, offset)) =
           {r \in Unreviewed(f) : offset < Place(f, r) /\ Place(f, r) <= offset + PageSize}
  BY RowsOfPage
<1>5. /\ session'.kind = "page" /\ session'.filter = f /\ session'.offset = offset
      /\ session'.rows = Rows(f, offset) /\ session'.total = None
      /\ "kind" \in DOMAIN session'
  BY <1>2
<1>6. /\ since'.shown = since.shown \cup ToSet(Rows(f, offset))
      /\ since'.waiting = since.waiting /\ since'.left = since.left
      /\ since'.commits = since.commits
      /\ since' = [shown |-> since'.shown, waiting |-> since'.waiting,
                   left |-> since'.left, commits |-> since'.commits]
  BY <1>2 DEF SinceOK
<1>7. SessionOK'
  BY <1>1, <1>2, <1>4, <1>5 DEF SessionOK, OnPage, HasList
<1>8. SinceOK'
  BY <1>4, <1>6 DEF SinceOK, Unreviewed
<1>9. WalkInv'
  <2>1. SUFFICES ASSUME ~since.left
                 PROVE  /\ since.waiting \subseteq Unreviewed(f)'
                        /\ \A r \in since.waiting :
                              Place(f, r)' <= offset + PageSize => r \in since'.shown
    BY <1>5, <1>6 DEF WalkInv
  <2>2. /\ since.waiting \subseteq Unreviewed(f)
        /\ \A r \in since.waiting :
              Place(f, r) <= session.offset + PageSize => r \in since.shown
    BY <1>1, <2>1 DEF WalkInv
  <2>3. since.waiting \subseteq Unreviewed(f)'
    BY <2>2, <1>2, UnchangedQueue
  <2>4. ASSUME NEW r \in since.waiting, Place(f, r) <= offset + PageSize
        PROVE  r \in since'.shown
    <3>1. Place(f, r) \in Int /\ session.offset \in Int /\ PageSize \in Int
      BY <2>2, PlacesAreInRange, QueueAssumption DEF SessionOK
    <3>2. CASE offset < Place(f, r)
      BY <3>2, <2>2, <2>4, <1>4, <1>6
    <3>3. CASE ~(offset < Place(f, r))
      BY <3>1, <3>3, <2>2, <1>6
    <3>4. QED
      BY <3>2, <3>3
  <2>5. QED
    BY <2>3, <2>4, <1>2, UnchangedQueue
<1>10. WalksShowAll' /\ ListInv'
  BY <1>5 DEF WalksShowAll, Shown, ListInv, HasList
<1>11. QED
  BY <1>3, <1>7, <1>8, <1>9, <1>10

(* When nobody leaves the queue, places only grow. *)
LEMMA PlacesGrow ==
  ASSUME NEW f, Leaving(f) = {}
  PROVE  /\ Unreviewed(f) \subseteq Unreviewed(f)'
         /\ \A r \in Unreviewed(f) : Place(f, r) <= Place(f, r)'
<1>1. \A r \in Unreviewed(f) : r \in RunIds /\ InQueue(r, f)' /\ Key(r)' = Key(r)
  BY DEF Leaving, Unreviewed
<1>2. Unreviewed(f) \subseteq Unreviewed(f)'
  BY <1>1 DEF Unreviewed
<1>3. ASSUME NEW r \in Unreviewed(f)
      PROVE  Place(f, r) <= Place(f, r)'
  <2>1. \A s \in Unreviewed(f) : Before(s, r)' = Before(s, r)
    BY <1>1 DEF Before
  <2>2. {s \in Unreviewed(f) : Before(s, r)}
           \subseteq {s \in Unreviewed(f)' : Before(s, r)'}
    BY <1>2, <2>1
  <2>3. {s \in Unreviewed(f)' : Before(s, r)'} \subseteq RunIds
    BY DEF Unreviewed
  <2>4. \A S, T : T \subseteq RunIds /\ S \subseteq T =>
                    /\ Cardinality(S) <= Cardinality(T)
                    /\ Cardinality(S) \in Nat /\ Cardinality(T) \in Nat
    BY QueueAssumption, FS_Subset, FS_CardinalityType
  <2>5. Cardinality({s \in Unreviewed(f) : Before(s, r)}) + 1
          <= Cardinality({s \in Unreviewed(f)' : Before(s, r)'}) + 1
    BY <2>2, <2>3, <2>4
  <2>6. QED
    BY <2>5 DEF Place
<1>4. QED
  BY <1>2, <1>3

(* What clients do to the library keeps the invariant: runs they add come  *)
(* before or after the ones that wait, and what takes one out is noted.    *)
LEMMA StoreStepKeepsInv ==
  ASSUME QueueInv, StoreStep
  PROVE  QueueInv'
<1> USE DEF QueueInv
<1>1. session' = session /\ IInv'
  BY StepsKeepIInv DEF StoreStep
<1>2. SessionOK'
  BY <1>1 DEF SessionOK, OnPage, HasList
<1>3. CASE session = None
  <2>1. since' = since
    BY <1>3 DEF StoreStep
  <2>2. QED
    BY <1>1, <1>2, <1>3, <2>1
    DEF SinceOK, WalkInv, WalksShowAll, ListInv, Shown, OnPage, HasList
<1>4. CASE session # None
  <2>1. PICK f : f = Filter
    OBVIOUS
  <2>2. since' = [since EXCEPT !.left = @ \/ Leaving(f) # {},
                               !.waiting = @ \ Leaving(f),
                               !.commits = @ + 1]
    BY <1>4, <2>1 DEF StoreStep
  <2>3. /\ since'.left = (since.left \/ Leaving(f) # {})
        /\ since'.waiting = since.waiting \ Leaving(f)
        /\ since'.commits = since.commits + 1
        /\ since'.shown = since.shown
        /\ since' = [shown |-> since'.shown, waiting |-> since'.waiting,
                     left |-> since'.left, commits |-> since'.commits]
    BY <2>2 DEF SinceOK
  <2>4. SinceOK'
    BY <2>3 DEF SinceOK
  <2>5. WalkInv'
    <3>1. SUFFICES ASSUME OnPage, ~since'.left
                   PROVE  /\ since'.waiting \subseteq Unreviewed(f)'
                          /\ \A r \in since'.waiting :
                                Place(f, r)' <= session.offset + PageSize => r \in since.shown
      BY <1>1, <2>1, <2>3 DEF WalkInv, OnPage, Filter
    <3>2. f = session.filter /\ ~since.left /\ Leaving(f) = {}
      BY <2>1, <2>3, <3>1 DEF Filter
    <3>3. /\ since'.waiting = since.waiting
          /\ since.waiting \subseteq Unreviewed(f)
          /\ \A r \in since.waiting :
                Place(f, r) <= session.offset + PageSize => r \in since.shown
      BY <2>3, <3>1, <3>2 DEF WalkInv
    <3>4. since.waiting \subseteq Unreviewed(f)'
      BY <3>2, <3>3, PlacesGrow
    <3>5. ASSUME NEW r \in since.waiting, Place(f, r)' <= session.offset + PageSize
          PROVE  r \in since.shown
      <4>1. Place(f, r) <= Place(f, r)'
        BY <3>2, <3>3, PlacesGrow
      <4>2. /\ Place(f, r) \in Int /\ Place(f, r)' \in Int
            /\ session.offset \in Int /\ PageSize \in Int
        BY <3>1, PlaceIsNumber, QueueAssumption DEF SessionOK
      <4>3. QED
        BY <4>1, <4>2, <3>3, <3>5
    <3>6. QED
      BY <3>3, <3>4, <3>5
  <2>6. WalksShowAll'
    BY <1>1, <2>3 DEF WalksShowAll, Shown, OnPage, HasNext
  <2>7. ListInv'
    BY <1>1, <2>3 DEF ListInv, SinceOK
  <2>8. QED
    BY <1>1, <1>2, <2>4, <2>5, <2>6, <2>7
<1>5. QED
  BY <1>3, <1>4

(* The other requests of a session. *)
LEMMA SessionStepKeepsInv ==
  ASSUME QueueInv, QueueStep \/ AskReport \/ ReportSelect
  PROVE  QueueInv'
<1> USE DEF QueueInv
<1>1. ASSUME NEW f \in Filters, OpenQueue(f)
      PROVE  QueueInv'
  <2>1. /\ UNCHANGED vars
        /\ session' = [kind |-> "page", filter |-> f, offset |-> 0,
                       rows |-> Rows(f, 0), total |-> None]
        /\ since' = [Nothing EXCEPT !.shown = ToSet(Rows(f, 0)), !.waiting = Unreviewed(f)]
    BY <1>1 DEF OpenQueue, Select
  <2>2. IInv'
    BY <2>1, StepsKeepIInv
  <2>3. /\ Rows(f, 0) \in Seq(RunIds) /\ IsInjective(Rows(f, 0))
        /\ Len(Rows(f, 0)) <= PageSize
        /\ ToSet(Rows(f, 0)) =
             {r \in Unreviewed(f) : 0 < Place(f, r) /\ Place(f, r) <= 0 + PageSize}
    BY RowsOfPage DEF IInv
  <2>4. /\ session'.kind = "page" /\ session'.filter = f /\ session'.offset = 0
        /\ session'.rows = Rows(f, 0) /\ session'.total = None
        /\ "kind" \in DOMAIN session'
    BY <2>1
  <2>5. /\ since'.shown = ToSet(Rows(f, 0)) /\ since'.waiting = Unreviewed(f)
        /\ since'.left \in BOOLEAN /\ since'.commits = 0
        /\ since' = [shown |-> since'.shown, waiting |-> since'.waiting,
                     left |-> since'.left, commits |-> since'.commits]
    BY <2>1 DEF Nothing
  <2>6. SessionOK'
    BY <2>1, <2>3, <2>4 DEF SessionOK, OnPage, HasList
  <2>7. SinceOK'
    <3>1. Unreviewed(f) \subseteq RunIds
      BY DEF Unreviewed
    <3>2. ToSet(Rows(f, 0)) \subseteq RunIds
      BY <2>3, <3>1
    <3>3. QED
      BY <2>5, <3>1, <3>2 DEF SinceOK
  <2>8. /\ Unreviewed(f)' = Unreviewed(f)
        /\ \A r : Place(f, r)' = Place(f, r)
    BY <2>1, UnchangedQueue
  <2>9. \A r \in Unreviewed(f) : Place(f, r) <= 0 + PageSize => r \in ToSet(Rows(f, 0))
    BY <2>3, PlacesAreInRange DEF IInv
  <2>10. WalkInv'
    BY <2>4, <2>5, <2>8, <2>9 DEF WalkInv
  <2>11. WalksShowAll' /\ ListInv'
    BY <2>4 DEF WalksShowAll, Shown, ListInv, HasList
  <2>12. QED
    BY <2>2, <2>6, <2>7, <2>10, <2>11
<1>2. ASSUME NEW f \in Filters, ListUnreviewed(f)
      PROVE  QueueInv'
  <2>1. /\ UNCHANGED vars /\ since' = Nothing /\ Unreviewed(f) # {}
        /\ session' = [kind |-> "list", filter |-> f, ids |-> Unreviewed(f)]
    BY <1>2 DEF ListUnreviewed
  <2>2. IInv'
    BY <2>1, StepsKeepIInv
  <2>3. /\ session'.kind = "list" /\ session'.filter = f /\ session'.ids = Unreviewed(f)
        /\ "kind" \in DOMAIN session'
    BY <2>1
  <2>4. SessionOK'
    <3>1. Unreviewed(f) \in (SUBSET RunIds) \ {{}}
      <4>1. Unreviewed(f) \subseteq RunIds
        BY DEF Unreviewed
      <4>2. QED
        BY <2>1, <4>1
    <3>2. QED
      BY <2>3, <3>1 DEF SessionOK, OnPage, HasList
  <2>5. SinceOK'
    BY <2>1, NothingIsSince DEF SinceOK
  <2>6. ListInv'
    BY <2>1, <2>3, UnchangedQueue DEF ListInv
  <2>7. QED
    BY <2>2, <2>3, <2>4, <2>5, <2>6 DEF WalkInv, WalksShowAll, Shown, OnPage
<1>3. CASE CountQueue
  <2>1. PICK f \in Filters : f = session.filter
    BY <1>3 DEF CountQueue, SessionOK
  <2>2. /\ UNCHANGED vars /\ since' = since /\ OnPage
        /\ session' = [session EXCEPT !.total = Cardinality(Unreviewed(f))]
    BY <1>3, <2>1 DEF CountQueue
  <2>3. IInv'
    BY <2>2, StepsKeepIInv
  <2>4. /\ session'.kind = "page" /\ session'.filter = f
        /\ session'.offset = session.offset /\ session'.rows = session.rows
        /\ session'.total = Cardinality(Unreviewed(f))
        /\ session' = [kind |-> "page", filter |-> session'.filter,
                       offset |-> session'.offset, rows |-> session'.rows,
                       total |-> session'.total]
        /\ "kind" \in DOMAIN session'
    BY <2>1, <2>2 DEF SessionOK, OnPage
  <2>5. Cardinality(Unreviewed(f)) \in Nat
    BY QueueIsFinite
  <2>6. SessionOK'
    BY <2>1, <2>2, <2>4, <2>5 DEF SessionOK, HasList
  <2>7. SinceOK'
    BY <2>2 DEF SinceOK
  <2>8. WalkInv'
    BY <2>1, <2>2, <2>4, UnchangedQueue DEF WalkInv
  <2>9. WalksShowAll'
    <3>1. SUFFICES ASSUME Cardinality(Unreviewed(f)) <= session.offset + Len(session.rows),
                          ~since.left, NEW r \in since.waiting
                   PROVE  r \in since.shown
      BY <2>2, <2>4, <2>5 DEF WalksShowAll, HasNext, SessionOK
    <3>2. /\ Len(session.rows) \in Int /\ Len(session.rows) <= PageSize
          /\ session.offset \in Int /\ PageSize \in Int
      BY <2>2, QueueAssumption DEF SessionOK
    <3>3. r \in Unreviewed(f)
      BY <2>1, <2>2, <3>1 DEF WalkInv
    <3>4. Place(f, r) \in 1 .. Cardinality(Unreviewed(f))
      BY <3>3, PlacesAreInRange DEF IInv
    <3>5. Place(f, r) <= session.offset + PageSize
      BY <2>5, <3>1, <3>2, <3>4
    <3>6. QED
      BY <2>1, <2>2, <3>1, <3>5 DEF WalkInv
  <2>10. ListInv'
    BY <2>4 DEF ListInv, HasList
  <2>11. QED
    BY <2>3, <2>6, <2>7, <2>8, <2>9, <2>10
<1>4. CASE NextPage \/ PreviousPage \/ Reload
  <2>1. Shown /\ OnPage /\ session.offset \in Nat /\ PageSize \in Nat
    BY <1>4, QueueAssumption DEF NextPage, PreviousPage, Reload, Shown, SessionOK
  <2>2. PICK offset \in Nat : GoTo(offset) /\ offset <= session.offset + PageSize
    BY <1>4, <2>1 DEF NextPage, PreviousPage, Reload
  <2>3. QED
    BY <2>1, <2>2, GoToKeepsInv
<1>5. ASSUME session' = None, since' = Nothing, [Next]_vars
      PROVE  QueueInv'
  <2>1. IInv'
    BY <1>5, StepsKeepIInv
  <2>2. SinceOK'
    BY <1>5, NothingIsSince DEF SinceOK
  <2>3. QED
    BY <1>5, <2>1, <2>2
    DEF SessionOK, WalkInv, ListInv, WalksShowAll, Shown, OnPage, HasList
<1>6. ASSUME NEW decision \in Decisions, DecideListed(decision)
      PROVE  QueueInv'
  <2>1. session.ids \in SUBSET RunIds /\ BulkSetDecisions(session.ids, decision)
    BY <1>6 DEF DecideListed, SessionOK
  <2>2. Next
    BY <2>1 DEF Next
  <2>3. QED
    BY <1>5, <1>6, <2>2 DEF DecideListed
<1>7. ASSUME NEW label \in Labels, LabelListed(label)
      PROVE  QueueInv'
  <2>1. session.ids \in SUBSET RunIds /\ BulkSetLabels(session.ids, label)
    BY <1>7 DEF LabelListed, SessionOK
  <2>2. Next
    BY <2>1 DEF Next
  <2>3. QED
    BY <1>5, <1>7, <2>2 DEF LabelListed
<1>8. CASE Close
  BY <1>5, <1>8 DEF Close
<1>9. CASE AskReport \/ ReportSelect
  <2>1. UNCHANGED vars
    BY <1>9 DEF AskReport, ReportSelect
  <2>2. IInv'
    BY <2>1, StepsKeepIInv
  <2>3. "kind" \in DOMAIN session' /\ session'.kind = "report"
    <3>1. CASE AskReport
      BY <3>1 DEF AskReport
    <3>2. CASE ReportSelect
      BY <3>2 DEF ReportSelect, OnReport, SessionOK
    <3>3. QED
      BY <1>9, <3>1, <3>2
  <2>4. SinceOK'
    BY <1>9, NothingIsSince DEF AskReport, ReportSelect, SinceOK
  <2>5. QED
    BY <2>2, <2>3, <2>4
    DEF SessionOK, WalkInv, ListInv, WalksShowAll, Shown, OnPage, HasList
<1>10. QED
  BY <1>1, <1>2, <1>3, <1>4, <1>6, <1>7, <1>8, <1>9 DEF QueueStep

LEMMA NextQueueInv == QueueInv /\ [ReportNext]_queueVars => QueueInv'
<1> SUFFICES ASSUME QueueInv, [ReportNext]_queueVars PROVE QueueInv'
  OBVIOUS
<1>1. CASE UNCHANGED queueVars
  <2>1. UNCHANGED vars /\ session' = session /\ since' = since
    BY <1>1 DEF queueVars, vars
  <2>2. IInv'
    BY <2>1, StepsKeepIInv DEF QueueInv
  <2>3. WalkInv'
    <3>1. CASE OnPage
      <4>1. PICK f : f = session.filter
        OBVIOUS
      <4>2. QED
        BY <2>1, <4>1, UnchangedQueue DEF QueueInv, WalkInv, OnPage
    <3>2. CASE ~OnPage
      BY <2>1, <3>2 DEF WalkInv, OnPage
    <3>3. QED
      BY <3>1, <3>2
  <2>4. ListInv'
    <3>1. PICK f : f = session.filter
      OBVIOUS
    <3>2. QED
      BY <2>1, <3>1, UnchangedQueue DEF QueueInv, ListInv, HasList
  <2>5. QED
    BY <2>1, <2>2, <2>3, <2>4
    DEF QueueInv, SessionOK, SinceOK, WalksShowAll, Shown, HasNext, OnPage, HasList
<1>2. QED
  BY <1>1, StoreStepKeepsInv, SessionStepKeepsInv DEF ReportNext, QueueNext

(* What a session of reviews and reports rests on, in every reachable      *)
(* state. *)
THEOREM QueueInvariance == ReportSpec => []QueueInv
<1>1. ReportInit => QueueInv
  BY InitQueueInv DEF ReportInit
<1>2. QED
  BY <1>1, NextQueueInv, PTL DEF ReportSpec

(* A walk through the pages of the review queue shows every run that       *)
(* waited all the while, unless a run left the queue meanwhile             *)
(* (README.md:1376), however many runs and clients there are.              *)
THEOREM WalksAlwaysShowAll == ReportSpec => []WalksShowAll
BY QueueInvariance, PTL DEF QueueInv

(* Reviewers and reports find tables that agree and histories that explain *)
(* the decisions. *)
THEOREM ReviewersSeeSoundTables == ReportSpec => [](TablesAgree /\ HistoriesExplain)
BY QueueInvariance, PTL DEF QueueInv, IInv

(* The tables, and the pages and lists of a session, are what they should  *)
(* be: no page shows a run twice or more runs than its size.               *)
THEOREM QueueTypes == ReportSpec => []QueueTypeOK
<1>1. QueueInv => QueueTypeOK
  BY DEF QueueInv, IInv, SessionOK, SinceOK, QueueTypeOK
<1>2. QED
  BY <1>1, QueueInvariance, PTL

(* A bulk decision or label on the listed runs empties the queue if the    *)
(* library did not change since they were listed (README.md:1386, :1416).  *)
THEOREM BulkReviewsAlwaysEmptyTheQueue == ReportSpec => BulkReviewsEmptyTheQueue
<1> DEFINE Reviews ==
      \A filter \in Filters, decision \in Decisions, label \in Labels :
        /\ HasList /\ session.filter = filter /\ since.commits = 0
        /\ \/ decision # Pending /\ DecideListed(decision)
           \/ label # NoLabel /\ LabelListed(label)
        => Unreviewed(filter)' = {}
<1>1. ASSUME QueueInv
      PROVE  Reviews
  <2> SUFFICES ASSUME NEW filter \in Filters, NEW decision \in Decisions, NEW label \in Labels,
                      HasList, session.filter = filter, since.commits = 0,
                      \/ decision # Pending /\ DecideListed(decision)
                      \/ label # NoLabel /\ LabelListed(label)
               PROVE  Unreviewed(filter)' = {}
    OBVIOUS
  <2>1. PICK ids \in SUBSET RunIds : ids = session.ids /\ ids = Unreviewed(filter)
    BY <1>1 DEF QueueInv, ListInv, SessionOK
  <2>2. \A r \in RunIds :
          /\ r \in ids => Stored(r) /\ runs[r] \in Row
          /\ r \notin ids => ~InQueue(r, filter)
    BY <1>1, <2>1 DEF Unreviewed, InQueue, Stored, QueueInv, IInv, TypeOK, TablesTypeOK
  <2>3. \A r \in RunIds \ ids : runs'[r] = runs[r]
    BY <2>1 DEF DecideListed, LabelListed, BulkSetDecisions, BulkSetLabels, BulkDecided,
                BulkLabeled
  <2>4. \A r \in ids : runs'[r].decision # Pending \/ runs'[r].label # NoLabel
    <3>1. CASE decision # Pending /\ DecideListed(decision)
      BY <2>1, <2>2, <3>1 DEF DecideListed, BulkSetDecisions, BulkDecided, Decided, Row
    <3>2. CASE label # NoLabel /\ LabelListed(label)
      BY <2>1, <2>2, <3>2 DEF LabelListed, BulkSetLabels, BulkLabeled, Row
    <3>3. QED
      BY <3>1, <3>2
  <2>5. \A r \in RunIds : ~InQueue(r, filter)'
    BY <2>2, <2>3, <2>4 DEF InQueue, Stored, Status
  <2>6. QED
    BY <2>5 DEF Unreviewed
<1>2. QED
  BY <1>1, QueueInvariance, PTL DEF BulkReviewsEmptyTheQueue

-----------------------------------------------------------------------------
(***************************************************************************)
(* The report.                                                             *)
(***************************************************************************)

(* The sizes of the parts of a finite set add up to its size: the squares  *)
(* of the bars stand one to one for the elements.                          *)
LEMMA PartsAddUp ==
  ASSUME NEW K, NEW X, IsFiniteSet(X), NEW part \in [K -> SUBSET X],
         \A x \in X : \E k \in K : x \in part[k],
         \A k, l \in K : k # l => part[k] \cap part[l] = {}
  PROVE  Total([k \in K |-> Cardinality(part[k])]) = Cardinality(X)
<1> DEFINE size == [k \in K |-> Cardinality(part[k])]
           Squares == UNION {{k} \X (1 .. size[k]) : k \in K}
           nth == [k \in K |-> CHOOSE f \in Bijection(1 .. size[k], part[k]) : TRUE]
           element == [p \in Squares |-> nth[p[1]][p[2]]]
<1>1. \A k \in K : size[k] \in Nat /\ nth[k] \in Bijection(1 .. size[k], part[k])
  <2> SUFFICES ASSUME NEW k \in K
               PROVE  size[k] \in Nat /\ nth[k] \in Bijection(1 .. size[k], part[k])
    OBVIOUS
  <2>1. IsFiniteSet(part[k])
    BY FS_Subset
  <2>2. size[k] \in Nat /\ ExistsBijection(1 .. size[k], part[k])
    BY <2>1, FS_CardinalityType
  <2>3. QED
    BY <2>2, Fun_ExistsBij
<1> HIDE DEF nth, size
<1>2. \A k \in K : /\ \A i \in 1 .. size[k] : nth[k][i] \in part[k]
                   /\ \A i, j \in 1 .. size[k] : nth[k][i] = nth[k][j] => i = j
                   /\ \A x \in part[k] : \E i \in 1 .. size[k] : nth[k][i] = x
  <2> SUFFICES ASSUME NEW k \in K
               PROVE  /\ \A i \in 1 .. size[k] : nth[k][i] \in part[k]
                      /\ \A i, j \in 1 .. size[k] : nth[k][i] = nth[k][j] => i = j
                      /\ \A x \in part[k] : \E i \in 1 .. size[k] : nth[k][i] = x
    OBVIOUS
  <2>1. nth[k] \in Bijection(1 .. size[k], part[k])
    BY <1>1
  <2> DEFINE places == 1 .. size[k]
  <2>2. nth[k] \in Bijection(places, part[k])
    BY <2>1
  <2> HIDE DEF places
  <2>3. /\ nth[k] \in [places -> part[k]]
        /\ \A i, j \in places : nth[k][i] = nth[k][j] => i = j
        /\ \A x \in part[k] : \E i \in places : nth[k][i] = x
    <3>1. PICK f : f = nth[k]
      OBVIOUS
    <3>2. f \in Bijection(places, part[k])
      BY <2>2, <3>1
    <3>3. /\ f \in [places -> part[k]]
          /\ \A i, j \in places : f[i] = f[j] => i = j
          /\ \A x \in part[k] : \E i \in places : f[i] = x
      BY <3>2, Fun_BijectionProperties
    <3>4. QED
      BY <3>1, <3>3
  <2>4. QED
    BY <2>3 DEF places
<1>3. \A p : p \in Squares <=> \E k \in K : \E i \in 1 .. size[k] : p = <<k, i>>
  OBVIOUS
<1> HIDE DEF Squares
<1>4. \A k \in K : \A i \in 1 .. size[k] : <<k, i>> \in Squares /\ element[<<k, i>>] = nth[k][i]
  BY <1>3
<1> HIDE DEF element
<1>5. element \in [Squares -> X]
  <2>1. \A p \in Squares : element[p] \in X
    <3> TAKE p \in Squares
    <3>1. PICK k \in K : \E i \in 1 .. size[k] : p = <<k, i>>
      BY <1>3
    <3>2. PICK i \in 1 .. size[k] : p = <<k, i>>
      BY <3>1
    <3>3. QED
      BY <1>2, <1>4, <3>2
  <2>2. QED
    BY <2>1 DEF element
<1>6. \A p, q \in Squares : element[p] = element[q] => p = q
  <2> SUFFICES ASSUME NEW p \in Squares, NEW q \in Squares, element[p] = element[q]
               PROVE  p = q
    OBVIOUS
  <2>1. PICK k \in K : \E i \in 1 .. size[k] : p = <<k, i>>
    BY <1>3
  <2>2. PICK i \in 1 .. size[k] : p = <<k, i>>
    BY <2>1
  <2>3. PICK l \in K : \E j \in 1 .. size[l] : q = <<l, j>>
    BY <1>3
  <2>4. PICK j \in 1 .. size[l] : q = <<l, j>>
    BY <2>3
  <2>5. element[p] = nth[k][i] /\ nth[k][i] \in part[k]
    BY <1>2, <1>4, <2>2
  <2>6. element[q] = nth[l][j] /\ nth[l][j] \in part[l]
    BY <1>2, <1>4, <2>4
  <2>7. k = l
    BY <2>5, <2>6
  <2>8. i = j
    BY <1>2, <2>5, <2>6, <2>7
  <2>9. QED
    BY <2>2, <2>4, <2>7, <2>8
<1>7. \A x \in X : \E p \in Squares : element[p] = x
  <2> TAKE x \in X
  <2>1. PICK k \in K : x \in part[k]
    OBVIOUS
  <2>2. PICK i \in 1 .. size[k] : nth[k][i] = x
    BY <1>2, <2>1
  <2>3. QED
    BY <1>4, <2>2
<1>8. element \in Bijection(Squares, X)
  BY <1>5, <1>6, <1>7, Fun_IsBij
<1>9. ExistsBijection(X, Squares)
  BY <1>8, Fun_ExistsBij, Fun_ExistsBijSymmetric
<1>10. Cardinality(Squares) = Cardinality(X)
  BY <1>9, FS_Bijection
<1>11. Total(size) = Cardinality(Squares)
  <2>1. DOMAIN size = K
    BY DEF size
  <2>2. QED
    BY <2>1 DEF Total, Squares
<1>12. QED
  BY <1>10, <1>11 DEF size

-----------------------------------------------------------------------------
(* Groups of runs: every stored run is in one, and in no other.            *)
Groups(K, group) ==
  /\ group \in [K -> SUBSET StoredRuns]
  /\ \A r \in StoredRuns : \E k \in K : r \in group[k]
  /\ \A k, l \in K : k # l => group[k] \cap group[l] = {}

(* Runs, and the tool spans of runs, can be counted. *)
LEMMA StoredRunsAreFinite ==
  /\ StoredRuns \subseteq RunIds /\ IsFiniteSet(StoredRuns)
  /\ \A R \in SUBSET RunIds : IsFiniteSet(R) /\ IsFiniteSet(ToolRows(R))
<1>1. StoredRuns \subseteq RunIds
  BY DEF StoredRuns
<1>2. \A R \in SUBSET RunIds : IsFiniteSet(R)
  BY QueueAssumption, FS_Subset
<1>3. ASSUME NEW R \in SUBSET RunIds
      PROVE  IsFiniteSet(ToolRows(R))
  <2>1. IsFiniteSet(R \X ToolSpans)
    BY <1>2, ReportAssumption, FS_Product
  <2>2. ToolRows(R) \in SUBSET (R \X ToolSpans)
    BY DEF ToolRows
  <2>3. QED
    BY <2>1, <2>2, FS_Subset
<1>4. QED
  BY <1>1, <1>2, <1>3

(* A missing run has no spans, so its spans are none of those counted.     *)
LEMMA ToolRowsAreOfRuns ==
  ASSUME TablesAgree
  PROVE  ToolRows(RunIds) = ToolRows(StoredRuns)
BY DEF TablesAgree, RowsBelongToRuns, ToolRows, StoredRuns, Stored

(* The rows of a report over such groups add up to the totals.             *)
LEMMA GroupsAddUp ==
  ASSUME TablesAgree, NEW K, NEW group, Groups(K, group), NEW rows, DOMAIN rows = K,
         \A k \in K : /\ rows[k].summary = Summary(group[k])
                      /\ rows[k].tool_calls = ToolCalls(group[k]),
         Part("total") = Summary(StoredRuns), Part("tool_calls") = ToolCalls(RunIds)
  PROVE  AddsUp(rows)
<1>1. IsFiniteSet(StoredRuns) /\ IsFiniteSet(ToolRows(StoredRuns))
  BY StoredRunsAreFinite
<1>0. \A k \in K :
        /\ rows[k].summary.runs = Cardinality(group[k])
        /\ rows[k].summary.failure_runs = Cardinality({r \in group[k] : Status(r) = "error"})
        /\ rows[k].summary.unlabeled_runs
             = Cardinality({r \in group[k] : runs[r].label = NoLabel})
  <2> TAKE k \in K
  <2>1. PICK R : R = group[k]
    OBVIOUS
  <2>2. rows[k].summary = Summary(R)
    BY <2>1
  <2>3. /\ Summary(R).runs = Cardinality(R)
        /\ Summary(R).failure_runs = Cardinality({r \in R : Status(r) = "error"})
        /\ Summary(R).unlabeled_runs = Cardinality({r \in R : runs[r].label = NoLabel})
    BY DEF Summary
  <2>4. QED
    BY <2>1, <2>2, <2>3
<1>2. Total([k \in K |-> rows[k].summary.runs]) = Part("total").runs
  <2>1. Total([k \in K |-> Cardinality(group[k])]) = Cardinality(StoredRuns)
    BY <1>1, PartsAddUp DEF Groups
  <2>2. [k \in K |-> rows[k].summary.runs] = [k \in K |-> Cardinality(group[k])]
    BY <1>0
  <2>3. QED
    BY <2>1, <2>2 DEF Summary
<1>3. Total([k \in K |-> rows[k].summary.failure_runs]) = Part("total").failure_runs
  <2> DEFINE Failed(R) == {r \in R : Status(r) = "error"}
             part == [k \in K |-> Failed(group[k])]
  <2>1. /\ part \in [K -> SUBSET Failed(StoredRuns)]
        /\ \A r \in Failed(StoredRuns) : \E k \in K : r \in part[k]
        /\ \A k, l \in K : k # l => part[k] \cap part[l] = {}
    BY DEF Groups
  <2>2. IsFiniteSet(Failed(StoredRuns))
    BY <1>1, FS_Subset
  <2>3. [k \in K |-> rows[k].summary.failure_runs] = [k \in K |-> Cardinality(part[k])]
    BY <1>0
  <2>4. Part("total").failure_runs = Cardinality(Failed(StoredRuns))
    BY DEF Summary
  <2> HIDE DEF part, Failed
  <2>5. Total([k \in K |-> Cardinality(part[k])]) = Cardinality(Failed(StoredRuns))
    BY <2>1, <2>2, PartsAddUp
  <2>6. QED
    BY <2>3, <2>4, <2>5
<1>4. Total([k \in K |-> rows[k].summary.unlabeled_runs]) = Part("total").unlabeled_runs
  <2> DEFINE Unlabeled(R) == {r \in R : runs[r].label = NoLabel}
             part == [k \in K |-> Unlabeled(group[k])]
  <2>1. /\ part \in [K -> SUBSET Unlabeled(StoredRuns)]
        /\ \A r \in Unlabeled(StoredRuns) : \E k \in K : r \in part[k]
        /\ \A k, l \in K : k # l => part[k] \cap part[l] = {}
    BY DEF Groups
  <2>2. IsFiniteSet(Unlabeled(StoredRuns))
    BY <1>1, FS_Subset
  <2>3. [k \in K |-> rows[k].summary.unlabeled_runs] = [k \in K |-> Cardinality(part[k])]
    BY <1>0
  <2>4. Part("total").unlabeled_runs = Cardinality(Unlabeled(StoredRuns))
    BY DEF Summary
  <2> HIDE DEF part, Unlabeled
  <2>5. Total([k \in K |-> Cardinality(part[k])]) = Cardinality(Unlabeled(StoredRuns))
    BY <2>1, <2>2, PartsAddUp
  <2>6. QED
    BY <2>3, <2>4, <2>5
<1>5. Total([k \in K |-> rows[k].tool_calls]) = Part("tool_calls")
  <2> DEFINE part == [k \in K |-> ToolRows(group[k])]
  <2>1. /\ part \in [K -> SUBSET ToolRows(StoredRuns)]
        /\ \A row \in ToolRows(StoredRuns) : \E k \in K : row \in part[k]
        /\ \A k, l \in K : k # l => part[k] \cap part[l] = {}
    BY DEF Groups, ToolRows
  <2>2. [k \in K |-> rows[k].tool_calls] = [k \in K |-> Cardinality(part[k])]
    BY DEF ToolCalls
  <2> HIDE DEF part
  <2>3. Total([k \in K |-> Cardinality(part[k])]) = Cardinality(ToolRows(StoredRuns))
    BY <1>1, <2>1, PartsAddUp
  <2>4. QED
    BY <2>2, <2>3, ToolRowsAreOfRuns DEF ToolCalls
<1>6. QED
  BY <1>2, <1>3, <1>4, <1>5 DEF AddsUp

AllAnswers == {Answer(Selects[i]) : i \in 1 .. Len(Selects)}

(* What a report has read is what its SELECTs read now, as long as the     *)
(* library has not changed.                                                *)
ReportInv ==
  OnReport /\ since.commits = 0 =>
    /\ session = [kind |-> "report", cutoff |-> session.cutoff, answers |-> session.answers]
    /\ session.cutoff \in Int
    /\ session.answers \in Seq(AllAnswers)
    /\ \A i \in 1 .. Len(session.answers) : session.answers[i] = Answer(Selects[i])

(* A SELECT of tables that did not change has the same answer.             *)
LEMMA SameAnswers ==
  ASSUME UNCHANGED vars, session'.cutoff = session.cutoff, NEW part
  PROVE  Answer(part)' = Answer(part)
<1>1. runs' = runs /\ spans' = spans
  BY DEF vars
<1>2. StoredRuns' = StoredRuns
  BY <1>1 DEF StoredRuns, Stored
<1>3. /\ \A a : RunsOfAgent(a)' = RunsOfAgent(a)
      /\ \A s : RunsOfSource(s)' = RunsOfSource(s)
  BY <1>1, <1>2 DEF RunsOfAgent, RunsOfSource
<1>4. \A R : /\ Summary(R)' = Summary(R) /\ ToolRows(R)' = ToolRows(R)
             /\ AgentsAmong(R)' = AgentsAmong(R)
  BY <1>1 DEF Summary, ToolRows, AgentsAmong, Status
<1>5. \A R : ToolCalls(R)' = ToolCalls(R)
  BY <1>4 DEF ToolCalls
<1>6. /\ PresentAgents' = PresentAgents /\ PresentSources' = PresentSources
      /\ CallingAgents' = CallingAgents /\ CallingSources' = CallingSources
  BY <1>3, <1>4 DEF PresentAgents, PresentSources, CallingAgents, CallingSources
<1>7. Eligible' = Eligible /\ Protected' = Protected
  BY <1>1 DEF Eligible, Protected
<1>8. QED
  BY <1>2, <1>3, <1>4, <1>5, <1>6, <1>7 DEF Answer

-----------------------------------------------------------------------------
(* At first no report was asked for. *)
LEMMA InitReportInv == QueueInit => ReportInv
BY DEF QueueInit, ReportInv, OnReport

(* A SELECT adds its answer, and no other request touches the report.     *)
LEMMA NextReportInv ==
  ASSUME QueueInv, ReportInv, [ReportNext]_queueVars
  PROVE  ReportInv'
<1>1. CASE UNCHANGED queueVars
  <2>1. UNCHANGED vars /\ session' = session /\ since' = since
    BY <1>1 DEF queueVars, vars
  <2>2. \A part : Answer(part)' = Answer(part)
    BY <2>1, SameAnswers
  <2>3. AllAnswers' = AllAnswers
    BY <2>2 DEF AllAnswers
  <2>4. QED
    BY <2>1, <2>2, <2>3 DEF ReportInv, OnReport
<1>2. CASE AskReport
  <2>1. session'.cutoff = now - RetentionAge /\ now \in Nat
    BY <1>2 DEF AskReport, QueueInv, IInv, TypeOK, TablesTypeOK
  <2>2. session'.cutoff \in Int
    BY <2>1, ReportAssumption
  <2>3. session' = [kind |-> "report", cutoff |-> session'.cutoff, answers |-> << >>]
    BY <1>2 DEF AskReport
  <2>4. session'.answers = << >>
    BY <1>2 DEF AskReport
  <2>5. QED
    BY <2>2, <2>3, <2>4 DEF ReportInv
<1>3. CASE ReportSelect
  <2> SUFFICES ASSUME OnReport', since'.commits = 0
               PROVE  ReportInv'
    BY DEF ReportInv
  <2>1. PICK next : next = Answer(Selects[Len(session.answers) + 1])
    OBVIOUS
  <2>2. /\ OnReport /\ since.commits = 0 /\ UNCHANGED vars
        /\ Len(session.answers) < Len(Selects)
        /\ session' = [session EXCEPT !.answers = Append(@, next)]
    BY <1>3, <2>1 DEF ReportSelect
  <2>3. /\ session = [kind |-> "report", cutoff |-> session.cutoff,
                      answers |-> session.answers]
        /\ session.cutoff \in Int /\ session.answers \in Seq(AllAnswers)
        /\ \A i \in 1 .. Len(session.answers) : session.answers[i] = Answer(Selects[i])
    BY <2>2 DEF ReportInv
  <2>4. /\ session'.cutoff = session.cutoff
        /\ session'.answers = Append(session.answers, next)
        /\ session' = [kind |-> "report", cutoff |-> session'.cutoff,
                       answers |-> session'.answers]
    <3>1. PICK cutoff, answers :
            session = [kind |-> "report", cutoff |-> cutoff, answers |-> answers]
      BY <2>3
    <3>2. session' = [kind |-> "report", cutoff |-> cutoff, answers |-> Append(answers, next)]
      BY <2>2, <3>1
    <3>3. QED
      BY <3>1, <3>2
  <2>5. \A part : Answer(part)' = Answer(part)
    BY <2>2, <2>4, SameAnswers
  <2>6. next \in AllAnswers
    <3>1. Len(Selects) = 9
      BY DEF Selects
    <3>2. Len(session.answers) + 1 \in 1 .. Len(Selects)
      BY <2>2, <2>3, <3>1
    <3>3. QED
      BY <2>1, <3>2 DEF AllAnswers
  <2>7. /\ session'.answers \in Seq(AllAnswers)
        /\ Len(session'.answers) = Len(session.answers) + 1
        /\ \A i \in 1 .. Len(session.answers) : session'.answers[i] = session.answers[i]
        /\ session'.answers[Len(session.answers) + 1] = next
    BY <2>3, <2>4, <2>6
  <2>8. \A i \in 1 .. Len(session'.answers) : session'.answers[i] = Answer(Selects[i])
    BY <2>1, <2>3, <2>7
  <2>9. AllAnswers' = AllAnswers
    BY <2>5 DEF AllAnswers
  <2>10. QED
    BY <2>3, <2>4, <2>5, <2>7, <2>8, <2>9 DEF ReportInv
<1>4. CASE StoreStep
  <2>1. CASE session = None
    BY <1>4, <2>1 DEF StoreStep, ReportInv, OnReport
  <2>2. CASE session # None
    <3>1. since'.commits = since.commits + 1 /\ since.commits \in Nat
      BY <1>4, <2>2 DEF StoreStep, QueueInv, SinceOK
    <3>2. QED
      BY <3>1 DEF ReportInv
  <2>3. QED
    BY <2>1, <2>2
<1>5. CASE QueueStep
  <2>1. ~OnReport'
    <3>1. CASE \E filter \in Filters : OpenQueue(filter)
      BY <3>1 DEF OpenQueue, Select, OnReport
    <3>2. CASE \E filter \in Filters : ListUnreviewed(filter)
      BY <3>2 DEF ListUnreviewed, OnReport
    <3>3. CASE CountQueue
      BY <3>3 DEF CountQueue, OnPage, OnReport, QueueInv, SessionOK
    <3>4. CASE NextPage \/ PreviousPage \/ Reload
      BY <3>4 DEF NextPage, PreviousPage, Reload, GoTo, Select, OnReport
    <3>5. CASE session' = None
      BY <3>5 DEF OnReport
    <3>6. QED
      BY <1>5, <3>1, <3>2, <3>3, <3>4, <3>5 DEF QueueStep, DecideListed, LabelListed, Close
  <2>2. QED
    BY <2>1 DEF ReportInv
<1>6. QED
  BY <1>1, <1>2, <1>3, <1>4, <1>5 DEF ReportNext, QueueNext

(* Each stored run names one agent. *)
LEMMA AgentsAreGroups ==
  ASSUME TablesTypeOK
  PROVE  Groups(PresentAgents, [a \in PresentAgents |-> RunsOfAgent(a)])
<1>1. \A r \in StoredRuns : runs[r].trace \in Traces
  BY DEF TablesTypeOK, StoredRuns, Stored, Row
<1>2. \A r \in StoredRuns : AgentOf[runs[r].trace] \in PresentAgents
  BY <1>1 DEF PresentAgents, Agents, RunsOfAgent
<1>3. QED
  BY <1>2 DEF Groups, RunsOfAgent

(* Each stored run comes from one folder. *)
LEMMA SourcesAreGroups ==
  ASSUME TablesTypeOK
  PROVE  Groups(PresentSources, [s \in PresentSources |-> RunsOfSource(s)])
<1>1. \A r \in StoredRuns : runs[r].trace \in Traces
  BY DEF TablesTypeOK, StoredRuns, Stored, Row
<1>2. \A r \in StoredRuns : SourceOf[runs[r].trace] \in PresentSources
  BY <1>1 DEF PresentSources, Sources, RunsOfSource
<1>3. QED
  BY <1>2 DEF Groups, RunsOfSource

(* The retention line divides the expired runs. *)
LEMMA ExpiredRunsDivide ==
  /\ Cardinality(Eligible) + Cardinality(Protected)
       = Cardinality({r \in RunIds : Expired(runs[r], session.cutoff, FALSE)})
  /\ Cardinality(Eligible) <= Summary(StoredRuns).unlabeled_runs
  /\ Cardinality(Protected)
       <= Summary(StoredRuns).runs - Summary(StoredRuns).unlabeled_runs
<1> DEFINE unlabeled == {r \in StoredRuns : runs[r].label = NoLabel}
           labeled == StoredRuns \ unlabeled
           expired == {r \in RunIds : Expired(runs[r], session.cutoff, FALSE)}
<1>1. /\ Eligible \cup Protected = expired /\ Eligible \cap Protected = {}
      /\ Eligible \subseteq unlabeled /\ Protected \subseteq labeled
      /\ unlabeled \subseteq StoredRuns
  BY DEF Eligible, Protected, Expired, StoredRuns, Stored
<1>2. IsFiniteSet(StoredRuns) /\ IsFiniteSet(unlabeled) /\ IsFiniteSet(labeled)
  BY StoredRunsAreFinite, FS_Subset
<1>3. /\ Summary(StoredRuns).runs = Cardinality(StoredRuns)
      /\ Summary(StoredRuns).unlabeled_runs = Cardinality(unlabeled)
  BY DEF Summary
<1> HIDE DEF expired
<1>4. /\ IsFiniteSet(Eligible) /\ Cardinality(Eligible) <= Cardinality(unlabeled)
      /\ IsFiniteSet(Protected) /\ Cardinality(Protected) <= Cardinality(labeled)
  BY <1>1, <1>2, FS_Subset
<1>5. StoredRuns \cap unlabeled = unlabeled
  OBVIOUS
<1>6. Cardinality(labeled) = Cardinality(StoredRuns) - Cardinality(unlabeled)
  BY <1>2, <1>5, FS_Difference
<1>7. /\ Cardinality(Eligible) \in Nat /\ Cardinality(Protected) \in Nat
      /\ Cardinality(Eligible \cap Protected) = 0
  BY <1>1, <1>4, FS_CardinalityType, FS_EmptySet
<1>8. Cardinality(expired) = Cardinality(Eligible) + Cardinality(Protected)
                               - Cardinality(Eligible \cap Protected)
  BY <1>1, <1>4, FS_Union
<1>9. QED
  BY <1>3, <1>4, <1>6, <1>7, <1>8 DEF expired

-----------------------------------------------------------------------------
(* A complete report shows the answers to its SELECTs. *)
LEMMA PartsAreAnswers ==
  ASSUME ReportInv, Reported, since.commits = 0, NEW i \in 1 .. Len(Selects)
  PROVE  Part(Selects[i]) = Answer(Selects[i])
<1>1. PICK j \in 1 .. Len(Selects) :
        Selects[j] = Selects[i] /\ Part(Selects[i]) = session.answers[j]
  BY DEF Part
<1>2. session.answers[j] = Answer(Selects[j])
  BY DEF ReportInv, Reported
<1>3. QED
  BY <1>1, <1>2

(* The answers by their names. *)
LEMMA NamedParts ==
  ASSUME ReportInv, Reported, since.commits = 0
  PROVE  /\ Part("total") = Summary(StoredRuns)
         /\ Part("tool_calls") = ToolCalls(RunIds)
         /\ Part("agents") = [a \in PresentAgents |-> Summary(RunsOfAgent(a))]
         /\ Part("sources") = [s \in PresentSources |-> Summary(RunsOfSource(s))]
         /\ Part("agent_tools") = [a \in CallingAgents |-> ToolCalls(RunsOfAgent(a))]
         /\ Part("source_tools") =
              [f \in FoldersOf(CallingSources) |->
                 ToolCalls(RunsOfSource(SourceNamed(f, CallingSources)))]
         /\ Part("eligible") = Cardinality(Eligible)
         /\ Part("protected") = Cardinality(Protected)
<1>1. \A i \in 1 .. 9 : Part(Selects[i]) = Answer(Selects[i])
  <2>1. Len(Selects) = 9
    BY DEF Selects
  <2>2. QED
    BY <2>1, PartsAreAnswers
<1>2. /\ Selects[1] = "total" /\ Selects[2] = "tool_calls" /\ Selects[3] = "agents"
      /\ Selects[4] = "sources" /\ Selects[5] = "agent_tools"
      /\ Selects[6] = "source_tools" /\ Selects[8] = "eligible" /\ Selects[9] = "protected"
  BY DEF Selects
<1>3. /\ Part("total") = Answer("total") /\ Part("tool_calls") = Answer("tool_calls")
      /\ Part("agents") = Answer("agents") /\ Part("sources") = Answer("sources")
      /\ Part("agent_tools") = Answer("agent_tools")
      /\ Part("source_tools") = Answer("source_tools")
      /\ Part("eligible") = Answer("eligible") /\ Part("protected") = Answer("protected")
  BY <1>1, <1>2
<1>4. QED
  BY <1>3 DEF Answer

(* What the grouped SELECT of tool calls leaves out is zero. *)
LEMMA NoToolRows ==
  ASSUME NEW R \in SUBSET RunIds
  PROVE  ToolRows(R) = {} => ToolCalls(R) = 0
BY FS_EmptySet DEF ToolCalls

(* The rows by agent add up. *)
LEMMA AgentRowsAddUp ==
  ASSUME IInv, ReportInv, Reported, since.commits = 0
  PROVE  AddsUp(by_agent)
<1>1. DOMAIN by_agent = PresentAgents
  BY NamedParts DEF by_agent
<1>2. ASSUME NEW a \in PresentAgents
      PROVE  /\ by_agent[a].summary = Summary(RunsOfAgent(a))
             /\ by_agent[a].tool_calls = ToolCalls(RunsOfAgent(a))
  <2>1. by_agent[a] = [summary |-> Part("agents")[a],
                       tool_calls |-> GetOr0(Part("agent_tools"), a)]
    BY <1>1, NamedParts DEF by_agent
  <2>2. GetOr0(Part("agent_tools"), a) = ToolCalls(RunsOfAgent(a))
    <3>1. CASE a \in CallingAgents
      BY <3>1, NamedParts DEF GetOr0
    <3>2. CASE a \notin CallingAgents
      <4>1. ToolRows(RunsOfAgent(a)) = {} /\ RunsOfAgent(a) \subseteq RunIds
        BY <3>2 DEF CallingAgents, PresentAgents, RunsOfAgent, StoredRuns
      <4>2. QED
        BY <3>2, <4>1, NoToolRows, NamedParts DEF GetOr0
    <3>3. QED
      BY <3>1, <3>2
  <2>3. QED
    BY <2>1, <2>2, NamedParts
<1>3. PICK group : group = [a \in PresentAgents |-> RunsOfAgent(a)]
  OBVIOUS
<1>4. Groups(PresentAgents, group)
  BY <1>3, AgentsAreGroups DEF IInv, TypeOK
<1>5. PICK rows : rows = by_agent
  OBVIOUS
<1>6. /\ DOMAIN rows = PresentAgents
      /\ \A a \in PresentAgents : /\ rows[a].summary = Summary(group[a])
                                  /\ rows[a].tool_calls = ToolCalls(group[a])
  BY <1>1, <1>2, <1>3, <1>5
<1>7. AddsUp(rows)
  BY <1>4, <1>6, GroupsAddUp, NamedParts DEF IInv
<1>8. QED
  BY <1>5, <1>7

(* The rows by folder add up if every folder has a name of its own.        *)
LEMMA SourceRowsAddUp ==
  ASSUME IInv, ReportInv, Reported, since.commits = 0, NamesDiffer
  PROVE  AddsUp(by_source)
<1>1. DOMAIN by_source = PresentSources
  BY NamedParts DEF by_source
<1>2. \A s, z \in PresentSources : FolderOf[s] = FolderOf[z] => s = z
  BY NamedParts DEF NamesDiffer
<1>3. CallingSources \subseteq PresentSources
  <2>1. \A R : ToolRows(R) # {} => R # {}
    BY DEF ToolRows
  <2>2. QED
    BY <2>1 DEF CallingSources, PresentSources
<1>4. ASSUME NEW s \in PresentSources
      PROVE  /\ by_source[s].summary = Summary(RunsOfSource(s))
             /\ by_source[s].tool_calls = ToolCalls(RunsOfSource(s))
  <2>1. by_source[s] = [source_dir |-> FolderOf[s], summary |-> Part("sources")[s],
                        tool_calls |-> GetOr0(Part("source_tools"), FolderOf[s]),
                        agents     |-> GetOr0(Part("source_agents"), FolderOf[s])]
    BY <1>1, NamedParts DEF by_source
  <2>2. GetOr0(Part("source_tools"), FolderOf[s]) = ToolCalls(RunsOfSource(s))
    <3>1. CASE s \in CallingSources
      <4>1. FolderOf[s] \in FoldersOf(CallingSources)
        BY <3>1 DEF FoldersOf
      <4>2. SourceNamed(FolderOf[s], CallingSources) = s
        BY <1>2, <1>3, <3>1 DEF SourceNamed
      <4>3. QED
        BY <4>1, <4>2, NamedParts DEF GetOr0
    <3>2. CASE s \notin CallingSources
      <4>1. ToolRows(RunsOfSource(s)) = {} /\ RunsOfSource(s) \subseteq RunIds
        BY <3>2 DEF CallingSources, PresentSources, RunsOfSource, StoredRuns
      <4>2. FolderOf[s] \notin FoldersOf(CallingSources)
        BY <1>2, <1>3, <3>2 DEF FoldersOf
      <4>3. QED
        BY <4>1, <4>2, NoToolRows, NamedParts DEF GetOr0
    <3>3. QED
      BY <3>1, <3>2
  <2>3. QED
    BY <2>1, <2>2, NamedParts
<1>5. PICK group : group = [s \in PresentSources |-> RunsOfSource(s)]
  OBVIOUS
<1>6. Groups(PresentSources, group)
  BY <1>5, SourcesAreGroups DEF IInv, TypeOK
<1>7. PICK rows : rows = by_source
  OBVIOUS
<1>8. /\ DOMAIN rows = PresentSources
      /\ \A s \in PresentSources : /\ rows[s].summary = Summary(group[s])
                                   /\ rows[s].tool_calls = ToolCalls(group[s])
  BY <1>1, <1>4, <1>5, <1>7
<1>9. AddsUp(rows)
  BY <1>6, <1>8, GroupsAddUp, NamedParts DEF IInv
<1>10. QED
  BY <1>7, <1>9

(* README.md:1447: however many runs, agents and folders there are, the    *)
(* rows of a library report add up to its totals and its retention line    *)
(* divides the old runs, unless somebody changed the library while the     *)
(* SELECTs ran.                                                            *)
THEOREM ReportsAlwaysAddUp == ReportSpec => []ReportsAddUp
<1>1. ReportInit => ReportInv
  BY InitReportInv DEF ReportInit
<1>2. QueueInv /\ ReportInv /\ [ReportNext]_queueVars => ReportInv'
  BY NextReportInv
<1>3. ASSUME QueueInv, ReportInv
      PROVE  ReportsAddUp
  <2> SUFFICES ASSUME Reported, since.commits = 0
               PROVE  ReportsAddUp
    BY DEF ReportsAddUp
  <2>1. AddsUp(by_agent)
    BY <1>3, AgentRowsAddUp DEF QueueInv
  <2>2. NamesDiffer => AddsUp(by_source)
    BY <1>3, SourceRowsAddUp DEF QueueInv
  <2>3. QED
    BY <1>3, <2>1, <2>2, NamedParts, ExpiredRunsDivide DEF ReportsAddUp
<1>4. ReportSpec => []QueueInv
  BY QueueInvariance
<1>5. QED
  BY <1>1, <1>2, <1>3, <1>4, PTL DEF ReportSpec
=============================================================================
