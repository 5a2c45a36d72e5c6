------------------------------- MODULE Watcher -------------------------------
(***************************************************************************)
(* DirectoryWatcher and watch_directory (ingestion.py): a process that     *)
(* polls a directory, ingests files whose size or modification time        *)
(* changed since its last scan, and repeats the issues of files that did   *)
(* not.  Agents write, replace and remove the files while a scan is under  *)
(* way, and other clients of the library prune runs.                       *)
(*                                                                         *)
(* A scan lists the directory once.  For each file it takes the signature  *)
(* first and reads the content later.  What it learns becomes the memory   *)
(* of the watcher only when the scan ends.                                 *)
(*                                                                         *)
(* The variable recorded and the field noticed are not in the program: the *)
(* document last ingested from each file, by any scan, and whether the     *)
(* last rewrite of a file changed its signature.                           *)
(***************************************************************************)
EXTENDS Integers, FiniteSets

CONSTANTS
  Files,      \* file names, numbered in the order scans visit them
  Documents,  \* valid trace documents
  Invalid,    \* content that is not a trace document
  RunIds,     \* run IDs
  RunOf,      \* RunOf[d]: the run ID in document d
  None,
  Faults,     \* what may go wrong in this run, a subset of AllFaults
  MaxTime     \* bound: the last modification time

AllFaults == {"unreadable",  \* a file exists and cannot be read for a moment
              "locked",      \* ingest gives up on the write lock
              "pruned",      \* a run is deleted while the watcher runs
              "coarse"}      \* a rewrite that keeps size and time

ASSUME WatcherAssumption ==
  /\ Files \subseteq Nat
  /\ RunOf \in [Documents -> RunIds]
  /\ None \notin Documents \cup Nat /\ Invalid \notin Documents
  /\ Faults \subseteq AllFaults
  /\ MaxTime \in Nat

VARIABLES
  file,       \* file[f]: [content, signature, noticed], or None
  time,       \* modification time of the newest write
  stored,     \* stored[r]: the document the library holds for run r, or None
  pc,         \* where the watcher is: "sleep" between scans, "exited"
  candidates, \* files of the listing still to be visited
  loaded,     \* the document just read
  seen,       \* current_signatures
  failed,     \* files in current_issues
  signatures, \* _signatures: of the last scan that ended
  issues,     \* files in _issues
  exit,       \* why the process ended: "none", "interrupt", "error"
  recorded    \* recorded[f]: the document last ingested from f, or None

memory == <<signatures, issues>>
scanVars == <<pc, candidates, loaded, seen, failed, exit>>
vars == <<file, time, stored, pc, candidates, loaded, seen, failed,
          signatures, issues, exit, recorded>>

Nothing == [f \in Files |-> None]

Current == CHOOSE f \in candidates : \A g \in candidates : f <= g

-----------------------------------------------------------------------------
(* A scan.                                                                 *)

(* The files of the directory that match the pattern. *)
List ==
  /\ pc = "sleep"
  /\ pc' = "inspect"
  /\ candidates' = {f \in Files : file[f] # None}
  /\ seen' = Nothing
  /\ failed' = {}
  /\ UNCHANGED <<file, time, stored, loaded, memory, exit, recorded>>

(* Mutant: a file that had an issue is not looked at again.                *)
InspectOnce ==
  /\ pc = "inspect" /\ candidates # {}
  /\ IF file[Current] = None
     THEN /\ candidates' = candidates \ {Current}
          /\ UNCHANGED <<pc, seen, failed>>
     ELSE IF signatures[Current] = file[Current].signature \/ Current \in issues
     THEN /\ seen' = [seen EXCEPT ![Current] = signatures[Current]]
          /\ candidates' = candidates \ {Current}
          /\ failed' = failed \cup ({Current} \cap issues)
          /\ UNCHANGED pc
     ELSE /\ seen' = [seen EXCEPT ![Current] = file[Current].signature]
          /\ pc' = "load"
          /\ UNCHANGED <<candidates, failed>>
  /\ UNCHANGED <<file, time, stored, loaded, memory, exit, recorded>>

(* _file_signature, and what it decides.                                   *)
Inspect ==
  /\ pc = "inspect" /\ candidates # {}
  /\ IF file[Current] = None
     THEN /\ candidates' = candidates \ {Current}
          /\ UNCHANGED <<pc, seen, failed>>
     ELSE /\ seen' = [seen EXCEPT ![Current] = file[Current].signature]
          /\ IF signatures[Current] = file[Current].signature
             THEN /\ candidates' = candidates \ {Current}
                  /\ failed' = failed \cup ({Current} \cap issues)
                  /\ UNCHANGED pc
             ELSE /\ pc' = "load"
                  /\ UNCHANGED <<candidates, failed>>
  /\ UNCHANGED <<file, time, stored, loaded, memory, exit, recorded>>

(* _load_trace: read_error, invalid_json and schema_error are one issue.   *)
LoadFails ==
  /\ pc = "load"
  /\ \/ file[Current] = None
     \/ file[Current] # None /\ file[Current].content = Invalid
     \/ "unreadable" \in Faults
  /\ failed' = failed \cup {Current}
  /\ candidates' = candidates \ {Current}
  /\ pc' = "inspect"
  /\ UNCHANGED <<file, time, stored, loaded, seen, memory, exit, recorded>>

Load ==
  /\ pc = "load"
  /\ file[Current] # None /\ file[Current].content # Invalid
  /\ loaded' = file[Current].content
  /\ pc' = "ingest"
  /\ UNCHANGED <<file, time, stored, candidates, seen, failed, memory, exit, recorded>>

(* Mutant: the signature is taken again after the file has been read.      *)
IngestAndSign ==
  /\ pc = "ingest"
  /\ stored' = [stored EXCEPT ![RunOf[loaded]] = loaded]
  /\ recorded' = [recorded EXCEPT ![Current] = loaded]
  /\ seen' = IF file[Current] = None THEN seen
             ELSE [seen EXCEPT ![Current] = file[Current].signature]
  /\ pc' = "report"
  /\ UNCHANGED <<file, time, candidates, loaded, failed, memory, exit>>

(* TraceStore.ingest commits, and reads the run back in a second step. *)
Ingest ==
  /\ pc = "ingest"
  /\ stored' = [stored EXCEPT ![RunOf[loaded]] = loaded]
  /\ recorded' = [recorded EXCEPT ![Current] = loaded]
  /\ pc' = "report"
  /\ UNCHANGED <<file, time, candidates, loaded, seen, failed, memory, exit>>

Report ==
  /\ pc = "report"
  /\ stored[RunOf[loaded]] # None
  /\ loaded' = None
  /\ candidates' = candidates \ {Current}
  /\ pc' = "inspect"
  /\ UNCHANGED <<file, time, stored, seen, failed, memory, exit, recorded>>

(* Mutant: issues of earlier scans are kept.                               *)
FinishKeepingIssues ==
  /\ pc = "inspect" /\ candidates = {}
  /\ signatures' = seen
  /\ issues' = issues \cup failed
  /\ seen' = Nothing
  /\ failed' = {}
  /\ pc' = "sleep"
  /\ UNCHANGED <<file, time, stored, candidates, loaded, exit, recorded>>

(* The scan ends: what it saw replaces what the last one saw. *)
Finish ==
  /\ pc = "inspect" /\ candidates = {}
  /\ signatures' = seen
  /\ issues' = failed
  /\ seen' = Nothing
  /\ failed' = {}
  /\ pc' = "sleep"
  /\ UNCHANGED <<file, time, stored, candidates, loaded, exit, recorded>>

(* The process ends and its memory is gone. *)
Ends(why) ==
  /\ pc' = "exited"
  /\ exit' = why
  /\ candidates' = {}
  /\ loaded' = None
  /\ seen' = Nothing /\ failed' = {}
  /\ signatures' = Nothing /\ issues' = {}
  /\ UNCHANGED <<file, time, stored, recorded>>

(* ingest raises OperationalError: nothing on the way up catches it. *)
IngestFails == pc = "ingest" /\ "locked" \in Faults /\ Ends("error")

(* ingest returned {} for a run that is gone already: run["run_id"] is a   *)
(* KeyError.                                                               *)
ReportFails == pc = "report" /\ stored[RunOf[loaded]] = None /\ Ends("error")

Interrupt == pc # "exited" /\ Ends("interrupt")

Restart ==
  /\ pc = "exited"
  /\ pc' = "sleep"
  /\ exit' = "none"
  /\ UNCHANGED <<file, time, stored, candidates, loaded, seen, failed, memory, recorded>>

ScanStep ==
  \/ List \/ Inspect \/ LoadFails \/ Load \/ Ingest \/ Report \/ Finish
  \/ IngestFails \/ ReportFails

-----------------------------------------------------------------------------
(* Agents and other clients of the library.                                *)

Write(f, content) ==
  /\ time < MaxTime
  /\ time' = time + 1
  /\ file' = [file EXCEPT ![f] = [content |-> content, signature |-> time + 1,
                                      noticed |-> TRUE]]
  /\ UNCHANGED <<stored, scanVars, memory, recorded>>

(* A rewrite of the same size within the resolution of the clock. *)
RewriteUnnoticed(f, content) ==
  /\ "coarse" \in Faults
  /\ file[f] # None
  /\ file' = [file EXCEPT ![f].content = content, ![f].noticed = FALSE]
  /\ UNCHANGED <<time, stored, scanVars, memory, recorded>>

Remove(f) ==
  /\ file[f] # None
  /\ file' = [file EXCEPT ![f] = None]
  /\ UNCHANGED <<time, stored, scanVars, memory, recorded>>

Prune(r) ==
  /\ "pruned" \in Faults
  /\ stored[r] # None
  /\ stored' = [stored EXCEPT ![r] = None]
  /\ UNCHANGED <<file, time, scanVars, memory, recorded>>

Init ==
  /\ file = Nothing
  /\ time = 0
  /\ stored = [r \in RunIds |-> None]
  /\ pc = "sleep"
  /\ candidates = {}
  /\ loaded = None
  /\ seen = Nothing
  /\ failed = {}
  /\ signatures = Nothing
  /\ issues = {}
  /\ exit = "none"
  /\ recorded = Nothing

Next ==
  \/ ScanStep \/ Interrupt \/ Restart
  \/ \E f \in Files, content \in Documents \cup {Invalid} :
        Write(f, content) \/ RewriteUnnoticed(f, content)
  \/ \E f \in Files : Remove(f)
  \/ \E r \in RunIds : Prune(r)

Spec == Init /\ [][Next]_vars

(* A scan goes on, and after the interval comes the next one. *)
FairSpec == Spec /\ WF_vars(ScanStep)

-----------------------------------------------------------------------------
(* Type invariant: a document is in hand exactly between read and report.  *)
Contents == Documents \cup {Invalid}
Signatures == 0 .. MaxTime

TypeOK ==
  /\ \A f \in Files : /\ file[f] = None \/ file[f] \in [content : Contents, signature : Signatures,
                                                        noticed : BOOLEAN]
                      /\ seen[f] \in Signatures \cup {None}
                      /\ signatures[f] \in Signatures \cup {None}
                      /\ recorded[f] \in Documents \cup {None}
  /\ \A r \in RunIds : stored[r] # None => stored[r] \in Documents /\ RunOf[stored[r]] = r
  /\ time \in Signatures
  /\ pc \in {"sleep", "inspect", "load", "ingest", "report", "exited"}
  /\ candidates \subseteq Files /\ failed \subseteq Files /\ issues \subseteq Files
  /\ loaded # None <=> pc \in {"ingest", "report"}
  /\ pc \in {"load", "ingest", "report"} => candidates # {}
  /\ exit # "none" <=> pc = "exited"

Remembered(f) ==
  file[f] # None /\ file[f].noticed /\ signatures[f] = file[f].signature

(* scan: a file the watcher skips, its signature remembered and no issue   *)
(* kept, was ingested as it is.  A skip hides no document, whenever agents *)
(* rewrite or remove files and wherever an error or interrupt ends a scan; *)
(* README.md:1891 excepts a rewrite that keeps size and time.              *)
SkippedFilesAreRecorded ==
  \A f \in Files : Remembered(f) /\ f \notin issues => recorded[f] = file[f].content

(* An issue the watcher repeats from scan to scan stands for the content   *)
(* the file has now: unless a read failed for another reason, the content  *)
(* is invalid.                                                             *)
RepeatedIssuesAreReal ==
  \A f \in Files : Remembered(f) /\ f \in issues => file[f].content = Invalid

Holds(f, d) == file[f] # None /\ file[f].noticed /\ file[f].content = d

(* README.md:63, "The workbench finds the file and records the run": as    *)
(* long as the watcher polls, a valid document nobody touches any more is  *)
(* ingested.                                                               *)
ValidFilesAreRecorded ==
  \A f \in Files, d \in Documents :
     <>[](Holds(f, d) /\ pc # "exited") => <>[](recorded[f] = d)

(* ingestion.py:205, "Poll a watcher until interrupted".                   *)
PollsUntilInterrupted == exit # "error"
=============================================================================
