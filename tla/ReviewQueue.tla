------------------------------ MODULE ReviewQueue ------------------------------
(***************************************************************************)
(* The review queue: unreviewed_runs, unreviewed_count and                 *)
(* unreviewed_run_ids of storage.py, the review page of main.py that walks *)
(* through the queue page by page, and the review command of cli.py that   *)
(* decides on the whole queue at once.                                     *)
(*                                                                         *)
(* One session, a browser or a command, uses the queue while any client    *)
(* (this reviewer too) changes the library by the operations of            *)
(* AtomicStore.  What it read stays as read until it asks again.           *)
(*                                                                         *)
(* The variable since is not in the program: what happened since the       *)
(* session opened the queue.                                               *)
(***************************************************************************)
EXTENDS AtomicStore, SequencesExt

CONSTANTS
  FailedTraces,  \* traces whose status is error
  StartedAt,     \* StartedAt[t]: when the run of trace t started
  IdOrder,       \* IdOrder[r]: the place of run ID r among all IDs
  PageSize,      \* limit of the review page (50 unless asked otherwise)
  MaxCommits     \* bound: commits of clients while a session goes on

ASSUME QueueAssumption ==
  /\ FailedTraces \subseteq Traces
  /\ StartedAt \in [Traces -> Nat]
  /\ IdOrder \in [RunIds -> Nat] /\ IsInjective(IdOrder)
  /\ PageSize \in Nat \ {0} /\ MaxCommits \in Nat
  /\ IsFiniteSet(RunIds)

VARIABLES
  session,   \* the page, list or report the session holds, or None
  since

queueVars == <<runs, spans, history, comparisons, now, session, since>>

-----------------------------------------------------------------------------
(* The queue.                                                              *)

Filters == {"ok", "error", None}

Status(r) == IF runs[r].trace \in FailedTraces THEN "error" ELSE "ok"

InQueue(r, filter) ==
  /\ Stored(r)
  /\ runs[r].label = NoLabel /\ runs[r].decision = Pending
  /\ filter \in {None, Status(r)}

Unreviewed(filter) == {r \in RunIds : InQueue(r, filter)}

(* ORDER BY failed first, started_at, run_id                               *)
Key(r) == <<IF Status(r) = "error" THEN 0 ELSE 1, StartedAt[runs[r].trace], IdOrder[r]>>

Before(r, s) ==
  \E i \in 1 .. 3 : /\ Key(r)[i] < Key(s)[i]
                    /\ \A j \in 1 .. i - 1 : Key(r)[j] = Key(s)[j]

(* The place of r in that order.                                           *)
Place(filter, r) == Cardinality({s \in Unreviewed(filter) : Before(s, r)}) + 1

Queue(filter) ==
  [i \in 1 .. Cardinality(Unreviewed(filter)) |->
     CHOOSE r \in Unreviewed(filter) : Place(filter, r) = i]

(* Mutant: OFFSET counts from one.                                         *)
RowsFromOne(filter, offset) ==
  LET queue == Queue(filter)
  IN  SubSeq(queue, offset + 2,
             IF offset + 1 + PageSize < Len(queue) THEN offset + 1 + PageSize ELSE Len(queue))

(* LIMIT and OFFSET                                                        *)
Rows(filter, offset) ==
  LET queue == Queue(filter)
  IN  SubSeq(queue, offset + 1,
             IF offset + PageSize < Len(queue) THEN offset + PageSize ELSE Len(queue))

-----------------------------------------------------------------------------
(* The review page: its rows and its count are two reads.                  *)

OnPage == session # None /\ session.kind = "page"
Shown == OnPage /\ session.total # None

Select(filter, offset) ==
  session' = [kind |-> "page", filter |-> filter, offset |-> offset,
              rows |-> Rows(filter, offset), total |-> None]

Nothing == [shown |-> {}, waiting |-> {}, left |-> FALSE, commits |-> 0]

OpenQueue(filter) ==
  /\ session = None
  /\ Select(filter, 0)
  /\ since' = [Nothing EXCEPT !.shown = ToSet(Rows(filter, 0)),
                              !.waiting = Unreviewed(filter)]
  /\ UNCHANGED vars

CountQueue ==
  /\ OnPage /\ session.total = None
  /\ session' = [session EXCEPT !.total = Cardinality(Unreviewed(session.filter))]
  /\ UNCHANGED <<vars, since>>

HasNext == session.offset + Len(session.rows) < session.total

GoTo(offset) ==
  /\ Select(session.filter, offset)
  /\ since' = [since EXCEPT !.shown = @ \cup ToSet(Rows(session.filter, offset))]
  /\ UNCHANGED vars

NextPage == Shown /\ HasNext /\ GoTo(session.offset + PageSize)

PreviousPage ==
  /\ Shown /\ session.offset > 0
  /\ GoTo(IF session.offset < PageSize THEN 0 ELSE session.offset - PageSize)

(* The page reloads itself once a decision is recorded.                    *)
Reload == Shown /\ GoTo(session.offset)

-----------------------------------------------------------------------------
(* The review command without --run-id.                                    *)

(* Mutant: the command takes the runs of its first page.                   *)
ListFirstPage(filter) ==
  /\ session = None /\ Unreviewed(filter) # {}
  /\ session' = [kind |-> "list", filter |-> filter, ids |-> ToSet(Rows(filter, 0))]
  /\ since' = Nothing
  /\ UNCHANGED vars

(* unreviewed_run_ids; on an empty list the command exits.                 *)
ListUnreviewed(filter) ==
  /\ session = None /\ Unreviewed(filter) # {}
  /\ session' = [kind |-> "list", filter |-> filter, ids |-> Unreviewed(filter)]
  /\ since' = Nothing
  /\ UNCHANGED vars

HasList == session # None /\ session.kind = "list"

DecideListed(decision) ==
  /\ HasList /\ BulkSetDecisions(session.ids, decision)
  /\ session' = None /\ since' = Nothing

LabelListed(label) ==
  /\ HasList /\ BulkSetLabels(session.ids, label)
  /\ session' = None /\ since' = Nothing

Close == session # None /\ session' = None /\ since' = Nothing /\ UNCHANGED vars

-----------------------------------------------------------------------------
(* Runs that a step takes out of the queue or moves within it.             *)
Leaving(filter) ==
  {r \in Unreviewed(filter) : ~InQueue(r, filter)' \/ Key(r)' # Key(r)}

Filter == IF OnPage THEN session.filter ELSE None

(* Anybody changes the library.                                            *)
StoreStep ==
  /\ since.commits < MaxCommits
  /\ Next
  /\ UNCHANGED session
  /\ since' = IF session = None THEN since
              ELSE [since EXCEPT !.left = @ \/ Leaving(Filter) # {},
                                 !.waiting = @ \ Leaving(Filter),
                                 !.commits = @ + 1]

QueueInit == Init /\ session = None /\ since = Nothing

QueueStep ==
  \/ \E filter \in Filters : OpenQueue(filter) \/ ListUnreviewed(filter)
  \/ CountQueue \/ NextPage \/ PreviousPage \/ Reload
  \/ \E decision \in Decisions : DecideListed(decision)
  \/ \E label \in Labels : LabelListed(label)
  \/ Close

QueueNext == StoreStep \/ QueueStep

QueueSpec == QueueInit /\ [][QueueNext]_queueVars

-----------------------------------------------------------------------------
(* The tables, and the pages and lists of a session.                       *)
QueueTypeOK ==
  /\ TypeOK
  /\ OnPage => /\ session.rows \in Seq(RunIds) /\ IsInjective(session.rows)
               /\ Len(session.rows) <= PageSize
               /\ session.total \in Nat \cup {None}
  /\ HasList => session.ids \in (SUBSET RunIds) \ {{}}
  /\ since.waiting \subseteq RunIds /\ since.shown \subseteq RunIds

(* README.md:1376, "Use Previous or Next to move through the queue": when  *)
(* there is no next page, the walk has shown every run that waited for     *)
(* review all the while, unless a run left the queue meanwhile (then a     *)
(* page turned by its offset skips one).  New runs never make a walk miss  *)
(* another.                                                                *)
WalksShowAll ==
  Shown /\ ~HasNext /\ ~since.left => since.waiting \subseteq since.shown

(* README.md:1386, the command "updates every pending run in the active    *)
(* status filter", and :1416, it "labels every unreviewed run": the queue  *)
(* is empty then, unless the library changed after the runs were listed.   *)
BulkReviewsEmptyTheQueue ==
  [][\A filter \in Filters, decision \in Decisions, label \in Labels :
        /\ HasList /\ session.filter = filter /\ since.commits = 0
        /\ \/ decision # Pending /\ DecideListed(decision)
           \/ label # NoLabel /\ LabelListed(label)
        => Unreviewed(filter)' = {}]_queueVars

(* templates/review.html:55, on a page without rows: "Every run in this    *)
(* filter has a label or an explicit decision".  Stated for the pages      *)
(* after the first.                                                        *)
EmptyPagesMeanReviewed ==
  Shown /\ session.rows = << >> /\ session.offset > 0 => session.total = 0
=============================================================================
