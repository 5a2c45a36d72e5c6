-------------------------------- MODULE Exchange --------------------------------
(***************************************************************************)
(* Runs that leave the library and come back: the command line of cli.py   *)
(* (export of one run or of all, import-otlp, ingest) and the server's     *)
(* POST /api/otlp/traces.  Each process opens the library first, by the    *)
(* steps of Migration; what it exports and imports goes through Otlp.      *)
(*                                                                         *)
(* An import commits document by document, and an export reads run by run, *)
(* while the server records and prunes.  Either may be killed, and an      *)
(* ingest that stays locked out ends its import.                           *)
(*                                                                         *)
(* Two variables are not in the program: touched, the runs others changed  *)
(* since the job of a process began, and spent, what is used of the bounds.*)
(***************************************************************************)
EXTENDS Otlp, Migration

CONSTANTS
  Command, Server,  \* the two processes
  Documents,        \* documents agents record
  Payloads,         \* payloads other exporters post
  Formats,          \* formats of exports, "json" and "otlp"
  FileName,         \* FileName[r]: _safe_filename of run ID r
  MaxJobs,          \* bound: jobs, of both processes
  MaxChanges,       \* bound: traces recorded and runs pruned by others
  MaxFailures       \* bound: processes killed and statements locked out

ASSUME ExchangeAssumption ==
  /\ Processes = {Command, Server} /\ Command # Server
  /\ IsFiniteSet(RunIds)
  /\ \A d \in Documents : Valid(d) /\ \A s \in d.spans : DOMAIN s.attributes \subseteq UserKeys
  /\ \A payload \in Payloads : IsFiniteSet(DOMAIN payload)
  /\ Formats \subseteq {"json", "otlp"}
  /\ DOMAIN FileName = RunIds
  /\ MaxJobs \in Nat /\ MaxChanges \in Nat /\ MaxFailures \in Nat

VARIABLES
  library,   \* library[r]: the document of run r, or None
  files,     \* files[n, f]: what the export file of that name and format holds
  job,       \* job[p]: what process p is doing or did last, or None
  touched,
  spent

exchangeVars == <<migrationVars, library, files, job, touched, spent>>

FileNames == {FileName[r] : r \in RunIds} \X Formats

(* No file yet, and a file cut short, which is not JSON.                   *)
Missing == [format |-> "missing"]
Torn == [format |-> "torn"]

Contents(format, d) ==
  IF format = "json" THEN [format |-> "json", payload |-> d]
                     ELSE [format |-> "otlp", payload |-> trace_to_otlp_json(d)]

(* What an import of a file finds in it.                                   *)
Readable(file) ==
  /\ file.format \in {"json", "otlp"}
  /\ file.format = "otlp" => Parses(file.payload)

DocumentsIn(file) ==
  IF file.format = "json" THEN <<file.payload>> ELSE parse_otlp_json(file.payload)

StoredRuns == {r \in RunIds : library[r] # None}

-----------------------------------------------------------------------------
(* Jobs.                                                                   *)

Running(p) == job[p] # None /\ job[p].state = "running"
Free(p) == stage[p] = "open" /\ ~Running(p)
Exporting(p) == Running(p) /\ job[p].kind = "export"
Importing(p) == Running(p) /\ job[p].kind = "import"

Fault ==
  spent.failures < MaxFailures /\ spent' = [spent EXCEPT !.failures = @ + 1]

(* A command ends with its job; a server goes on.                          *)
Ends(p, state) ==
  /\ job' = [job EXCEPT ![p].state = state]
  /\ IF p = Command THEN Close(p) ELSE UNCHANGED migrationVars

Begins(p, k) ==
  /\ Free(p) /\ spent.jobs < MaxJobs
  /\ job' = [job EXCEPT ![p] = k]
  /\ spent' = [spent EXCEPT !.jobs = @ + 1]
  /\ touched' = [touched EXCEPT ![p] = {}]
  /\ UNCHANGED <<migrationVars, library, files>>

(* list_run_ids, or the run ID of the command line.  Without runs the      *)
(* command ends at once.                                                   *)
StartExport(format) ==
  \E ids \in SetToSeqs(StoredRuns) \cup {<<r>> : r \in RunIds} :
    /\ ids # << >>
    /\ Begins(Command, [kind |-> "export", state |-> "running", format |-> format,
                        ids |-> ids, next |-> 1, trace |-> None])

ExportId == job[Command].ids[job[Command].next]

Pending(p) ==
  job[p].next <= Len(IF job[p].kind = "export" THEN job[p].ids ELSE job[p].documents)

(* get_trace                                                               *)
GetTrace ==
  /\ Exporting(Command) /\ Pending(Command) /\ job[Command].trace = None
  /\ library[ExportId] # None
  /\ job' = [job EXCEPT ![Command].trace = library[ExportId]]
  /\ UNCHANGED <<migrationVars, library, files, touched, spent>>

(* SystemExit("Run not found")                                             *)
RunNotFound ==
  /\ Exporting(Command) /\ Pending(Command) /\ job[Command].trace = None
  /\ library[ExportId] = None
  /\ Ends(Command, "failed")
  /\ UNCHANGED <<library, files, touched, spent>>

ExportFile == <<FileName[ExportId], job[Command].format>>

(* Mutant: a file that is there already is kept.                           *)
WriteNewExport ==
  /\ Exporting(Command) /\ job[Command].trace # None
  /\ files' = [files EXCEPT ![ExportFile] =
                 IF @ = Missing THEN Contents(job[Command].format, job[Command].trace) ELSE @]
  /\ job' = [job EXCEPT ![Command].next = @ + 1, ![Command].trace = None]
  /\ UNCHANGED <<migrationVars, library, touched, spent>>

(* _write_export                                                           *)
WriteExport ==
  /\ Exporting(Command) /\ job[Command].trace # None
  /\ files' = [files EXCEPT ![ExportFile] = Contents(job[Command].format, job[Command].trace)]
  /\ job' = [job EXCEPT ![Command].next = @ + 1, ![Command].trace = None]
  /\ UNCHANGED <<migrationVars, library, touched, spent>>

(* ingest or import-otlp of an export file, or a posted payload.  Only     *)
(* import-otlp makes a summary of each run it stored, when it has read the *)
(* run back: between a document and the next, one is due.                  *)
ImportJob(documents, summary) ==
  [kind |-> "import", state |-> "running", documents |-> documents, next |-> 1,
   summary |-> summary]

StartImport(name) ==
  /\ Readable(files[name])
  /\ Begins(Command, ImportJob(DocumentsIn(files[name]),
                               IF files[name].format = "otlp" THEN "made" ELSE "never"))

Post(payload) ==
  /\ Parses(payload) /\ parse_otlp_json(payload) # << >>
  /\ Begins(Server, ImportJob(parse_otlp_json(payload), "never"))

SummaryDue(p) == Importing(p) /\ job[p].summary = "due"

Touching(p, R) ==
  touched' = [q \in Processes |-> IF q = p THEN touched[q] ELSE touched[q] \cup R]

(* Mutant: documents are stored last to first.                             *)
IngestBackwards(p) ==
  /\ Importing(p) /\ Pending(p) /\ ~SummaryDue(p)
  /\ LET d == job[p].documents[Len(job[p].documents) + 1 - job[p].next]
     IN  library' = [library EXCEPT ![d.run_id] = d] /\ Touching(p, {d.run_id})
  /\ job' = [job EXCEPT ![p].next = @ + 1,
                        ![p].summary = IF @ = "made" THEN "due" ELSE @]
  /\ UNCHANGED <<migrationVars, files, spent>>

IngestNext(p) ==
  /\ Importing(p) /\ Pending(p) /\ ~SummaryDue(p)
  /\ LET d == job[p].documents[job[p].next]
     IN  library' = [library EXCEPT ![d.run_id] = d] /\ Touching(p, {d.run_id})
  /\ job' = [job EXCEPT ![p].next = @ + 1,
                        ![p].summary = IF @ = "made" THEN "due" ELSE @]
  /\ UNCHANGED <<migrationVars, files, spent>>

(* The last attempt of _retry_on_lock failed: what is stored stays.        *)
IngestLocked(p) ==
  /\ Importing(p) /\ Pending(p) /\ ~SummaryDue(p)
  /\ Ends(p, "failed")
  /\ Fault
  /\ UNCHANGED <<library, files, touched>>

LastStored(p) == job[p].documents[job[p].next - 1].run_id

(* get_run finds the run just stored ... *)
MakeSummary(p) ==
  /\ SummaryDue(p)
  /\ library[LastStored(p)] # None
  /\ job' = [job EXCEPT ![p].summary = "made"]
  /\ UNCHANGED <<migrationVars, library, files, touched, spent>>

(* ... or, pruned meanwhile, not: ingest returns {}, and _run_summary      *)
(* raises KeyError.                                                        *)
SummaryFails(p) ==
  /\ SummaryDue(p)
  /\ library[LastStored(p)] = None
  /\ Ends(p, "failed")
  /\ UNCHANGED <<library, files, touched, spent>>

Report(p) ==
  /\ Running(p) /\ ~Pending(p) /\ ~SummaryDue(p)
  /\ Ends(p, "done")
  /\ UNCHANGED <<library, files, touched, spent>>

(* A process is killed; a file it is writing is cut short.                 *)
Killed(p) ==
  /\ stage[p] # "closed" /\ Fault
  /\ Close(p)
  /\ job' = IF Running(p) THEN [job EXCEPT ![p].state = "failed"] ELSE job
  /\ \/ UNCHANGED files
     \/ /\ p = Command /\ Exporting(p) /\ job[p].trace # None
        /\ files' = [files EXCEPT ![ExportFile] = Torn]
  /\ UNCHANGED <<library, touched>>

-----------------------------------------------------------------------------
(* Requests of others: an agent's trace, and a cleanup.                    *)
Record(d) ==
  /\ stage[Server] = "open" /\ spent.changes < MaxChanges
  /\ library' = [library EXCEPT ![d.run_id] = d]
  /\ spent' = [spent EXCEPT !.changes = @ + 1]
  /\ touched' = [q \in Processes |-> touched[q] \cup {d.run_id}]
  /\ UNCHANGED <<migrationVars, files, job>>

Prune(r) ==
  /\ stage[Server] = "open" /\ library[r] # None /\ spent.changes < MaxChanges
  /\ spent' = [spent EXCEPT !.changes = @ + 1]
  /\ library' = [library EXCEPT ![r] = None]
  /\ touched' = [q \in Processes |-> touched[q] \cup {r}]
  /\ UNCHANGED <<migrationVars, files, job>>

Open(p) ==
  /\ \/ (Launch(p) \/ OpeningStep(p)) /\ UNCHANGED spent
     \/ OpeningLocked(p) /\ Fault
  /\ UNCHANGED <<library, files, job, touched>>

Init ==
  /\ MigrationInit
  /\ library \in [RunIds -> Documents \cup {None}]
  /\ \A r \in StoredRuns : library[r].run_id = r /\ Runs \in tables
  /\ files = [n \in FileNames |-> Missing]
  /\ job = [p \in Processes |-> None]
  /\ touched = [p \in Processes |-> {}]
  /\ spent = [jobs |-> 0, changes |-> 0, failures |-> 0]

(* The jobs of the bound are done: nobody has work left.                   *)
Rest ==
  /\ spent.jobs = MaxJobs
  /\ \A p \in Processes : stage[p] \in {"closed", "open"} /\ ~Running(p)
  /\ UNCHANGED exchangeVars

Next ==
  \/ \E p \in Processes :
       \/ Open(p) \/ IngestNext(p) \/ IngestLocked(p) \/ MakeSummary(p) \/ SummaryFails(p)
       \/ Report(p) \/ Killed(p)
  \/ \E format \in Formats : StartExport(format)
  \/ GetTrace \/ RunNotFound \/ WriteExport
  \/ \E name \in FileNames : StartImport(name)
  \/ \E payload \in Payloads : Post(payload)
  \/ \E d \in Documents : Record(d)
  \/ \E r \in RunIds : Prune(r)
  \/ Rest

Spec == Init /\ [][Next]_exchangeVars

-----------------------------------------------------------------------------
(* Attributes a user has not put under keys of the workbench, no parent    *)
(* without a name, and times int() does not move: none before 1970 with a  *)
(* fraction of a second.                                                   *)
Regular(d) ==
  \A s \in d.spans :
    /\ \A k \in DOMAIN s.attributes : ~Reserved(k)
    /\ s.parent_span_id # Blank
    /\ \A t \in {s.start_time, s.end_time} : t.at >= 0 \/ t.at % 2 = 0

(* Attribute values that are read the second time as they were the first.  *)
(* A list of attributes in an event is not one: it is read as a dict, and  *)
(* that as {}.                                                             *)
Settled(d) ==
  \A s \in d.spans : \A k \in DOMAIN s.attributes :
    LET Read(v) == IF k = "otlp.events" THEN EventsDecoded[v] ELSE Decoded[v]
    IN  Read(Read(s.attributes[k])) = Read(s.attributes[k])

WithoutAttributes(d) ==
  [d EXCEPT !.spans = {[s EXCEPT !.attributes = << >>] : s \in d.spans}]

(* README.md:926, "The round trip keeps arguments, results, outcomes, and  *)
(* errors": the document that comes back is valid, compares as the same    *)
(* run call by call, errors too, and has the status it had.  A second      *)
(* round trip changes at most values of attributes, and none if they are   *)
(* settled.                                                                *)
KeepsEvidence(d) ==
  LET back == RoundTrip(d)
      again == RoundTrip(back)
      diffs == compare_runs(tool_calls(d), tool_calls(back))
  IN  /\ Parses(trace_to_otlp_json(d))
      /\ changed_tools(diffs) = 0 /\ error_changed_tools(diffs) = 0
      /\ status(back) = status(d)
      /\ back.run_id = d.run_id
      /\ {<<s.span_id, s.parent_span_id, s.status>> : s \in back.spans}
           = {<<s.span_id, s.parent_span_id, s.status>> : s \in d.spans}
      /\ WithoutAttributes(again) = WithoutAttributes(back)
      /\ Settled(d) => again = back

RoundTripsKeepEvidence ==
  Exporting(Command) /\ job[Command].trace # None /\ Regular(job[Command].trace)
    => KeepsEvidence(job[Command].trace)

(* README.md:917, "Export every run by omitting the run ID": when the      *)
(* command reports, each run it listed that nobody changed meanwhile has a *)
(* file, and the import of that file would store the run as it is, or      *)
(* after one round trip.  Not so for runs whose IDs become one file name.  *)
ExportsComeBack ==
  job[Command] # None /\ job[Command].kind = "export" /\ job[Command].state = "done" =>
    \A i \in 1 .. Len(job[Command].ids) :
      LET r == job[Command].ids[i]
          file == files[<<FileName[r], job[Command].format>>]
      IN  /\ r \notin touched[Command]
          /\ Regular(library[r])
          /\ \A j \in 1 .. Len(job[Command].ids) \ {i} :
               FileName[job[Command].ids[j]] # FileName[r]
          => /\ Readable(file)
             /\ DocumentsIn(file) =
                  <<IF file.format = "json" THEN library[r] ELSE RoundTrip(library[r])>>

(* main.py:571 and README.md:890, "The response lists each stored run": at *)
(* any moment, also after a lock error or a kill, an import has stored a   *)
(* prefix of its documents; each of their runs holds the last one of the   *)
(* prefix with its ID, unless others changed the run.  An import that      *)
(* reports has stored them all, whatever came of earlier attempts.         *)
ImportsApplyAPrefix ==
  \A p \in Processes :
    job[p] # None /\ job[p].kind = "import" =>
      /\ \A i \in 1 .. job[p].next - 1 :
           LET r == job[p].documents[i].run_id
               same == {j \in 1 .. job[p].next - 1 : job[p].documents[j].run_id = r}
           IN  r \notin touched[p] =>
                 \E last \in same : /\ \A j \in same : j <= last
                                    /\ library[r] = job[p].documents[last]
      /\ job[p].state = "done" => ~Pending(p)

-----------------------------------------------------------------------------
(* Statements of the documentation the code refutes.                       *)

(* otlp.py:6, "The conversion keeps the two directions lossless".          *)
ConversionIsLossless ==
  Exporting(Command) /\ job[Command].trace # None
    => RoundTrip(job[Command].trace) = job[Command].trace

(* otlp.py:6 once more: at least a document that came back from a round    *)
(* trip comes back from the next as it is.                                 *)
SecondTripIsLossless ==
  Exporting(Command) /\ job[Command].trace # None /\ Regular(job[Command].trace) =>
    LET back == RoundTrip(job[Command].trace) IN RoundTrip(back) = back

(* README.md:851, "The command converts each resource span group into one  *)
(* run and stores it": an import no kill and no lock error stops reports.  *)
ImportsReport ==
  \A p \in Processes :
    job[p] # None /\ job[p].kind = "import" /\ job[p].state = "failed" =>
      spent.failures > 0

(* README.md:926 once more, without the condition on attributes and times. *)
AllRoundTripsKeepEvidence ==
  Exporting(Command) /\ job[Command].trace # None => KeepsEvidence(job[Command].trace)

(* README.md:917, of all runs listed.                                      *)
ExportsAreComplete ==
  job[Command] # None /\ job[Command].kind = "export" /\ job[Command].state = "done" =>
    \A i \in 1 .. Len(job[Command].ids) :
      LET r == job[Command].ids[i]
      IN  r \notin touched[Command] =>
            DocumentsIn(files[<<FileName[r], job[Command].format>>])[1].run_id = r

(* otlp.py:46, "one workbench run per resource span group".                *)
GroupsBecomeRuns ==
  \A p \in Processes :
    job[p] # None /\ job[p].kind = "import" /\ job[p].state = "done" =>
      \A i, j \in 1 .. Len(job[p].documents) :
        job[p].documents[i].run_id = job[p].documents[j].run_id => i = j
=============================================================================
