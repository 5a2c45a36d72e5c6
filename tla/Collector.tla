------------------------------- MODULE Collector -------------------------------
(***************************************************************************)
(* Publishing recorded runs to an OpenTelemetry collector: the command     *)
(* publish of cli.py, which exports the runs it listed one after another,  *)
(* and the POST of collector.py with its attempts.  One run is sent by the *)
(* API in the same way.  The collector and the network between are         *)
(* external: what they may do to one request is in Faults.                 *)
(*                                                                         *)
(* The variables received, lost and redirected are not in the program.     *)
(* received counts what the collector recorded; the other two remember     *)
(* what happened on the way.                                               *)
(***************************************************************************)
EXTENDS Integers, Sequences, FiniteSets, SequencesExt

CONSTANTS
  RunIds,     \* the runs of the library when the command lists them
  Attempts,   \* _RETRY_ATTEMPTS (3 in the code)
  Faults,     \* what may go wrong
  None

FaultNames == {"refused", "http_error", "no_answer", "redirected", "not_http", "pruned"}

ASSUME CollectorAssumption ==
  /\ IsFiniteSet(RunIds) /\ RunIds # {} /\ None \notin RunIds
  /\ Attempts \in Nat \ {0}
  /\ Faults \subseteq FaultNames

VARIABLES
  stored,      \* runs of the library: a prune may remove one meanwhile
  pc,          \* where the command is
  todo,        \* runs it has still to export, the one being exported first
  attempt,     \* attempts _post has used up for that run
  detail,      \* last_detail: how the last attempt failed, or None
  reports,     \* reports collected so far
  output,      \* the reports printed when the command ends
  received,    \* received[r]: how often the collector recorded run r
  lost,        \* runs of which an answer did not arrive
  redirected   \* runs whose POST was answered by a redirect

vars == <<stored, pc, todo, attempt, detail, reports, output, received, lost, redirected>>
command == <<pc, todo, attempt, detail, reports, output>>
world == <<stored, received, lost, redirected>>

Details == {"connection refused", "timed out", "HTTP error"}

Report == [run_id : RunIds, status : {"accepted"}, detail : {None}]
            \cup [run_id : RunIds, status : {"failed"}, detail : Details]

-----------------------------------------------------------------------------
(* The command.                                                            *)

Init ==
  /\ stored = RunIds
  /\ pc = "next"
  /\ todo \in SetToSeqs(RunIds)
  /\ attempt = 0 /\ detail = None
  /\ reports = << >> /\ output = << >>
  /\ received = [r \in RunIds |-> 0]
  /\ lost = {} /\ redirected = {}

Current == Head(todo)

(* The trace is read now, not when the runs were listed.                   *)
Load ==
  /\ pc = "next" /\ todo # << >> /\ Current \in stored
  /\ pc' = "send" /\ attempt' = 0 /\ detail' = None
  /\ UNCHANGED <<todo, reports, output, world>>

(* SystemExit("Run not found"): nothing is printed.                        *)
RunNotFound ==
  /\ pc = "next" /\ todo # << >> /\ Current \notin stored
  /\ pc' = "exited"
  /\ UNCHANGED <<todo, attempt, detail, reports, output, world>>

PrintReports ==
  /\ pc = "next" /\ todo = << >>
  /\ pc' = "exited" /\ output' = reports
  /\ UNCHANGED <<todo, attempt, detail, reports, world>>

Export(status) ==
  /\ reports' = Append(reports, [run_id |-> Current, status |-> status,
                                 detail |-> detail'])
  /\ todo' = Tail(todo)
  /\ pc' = "next"

(* An attempt that failed: after a short sleep the next, or the report.    *)
Fails(why) ==
  /\ detail' = why
  /\ attempt' = attempt + 1
  /\ IF attempt' < Attempts
     THEN pc' = "send" /\ UNCHANGED <<todo, reports>>
     ELSE Export("failed")
  /\ UNCHANGED output

Accepted ==
  /\ detail' = None
  /\ Export("accepted")
  /\ UNCHANGED <<attempt, output>>

(* An exception _post does not catch ends the command.                     *)
Raises ==
  /\ pc' = "raised"
  /\ UNCHANGED <<todo, attempt, detail, reports, output>>

-----------------------------------------------------------------------------
(* One request, and what becomes of it.                                    *)

Refused ==
  /\ pc = "send" /\ "refused" \in Faults
  /\ Fails("connection refused")
  /\ UNCHANGED world

(* The request reaches the collector, which records the payload.           *)
Deliver ==
  /\ pc = "send"
  /\ received' = [received EXCEPT ![Current] = @ + 1]
  /\ pc' = "sent"
  /\ UNCHANGED <<stored, todo, attempt, detail, reports, output, lost, redirected>>

(* Mutant: only status 200 is success, and another 2xx is tried again.     *)
SucceedsWith200 ==
  /\ pc = "sent"
  /\ Accepted \/ Fails("HTTP error")
  /\ UNCHANGED world

Succeeds == pc = "sent" /\ Accepted /\ UNCHANGED world

(* It reaches a collector that refuses it.                                 *)
HTTPError ==
  /\ pc = "send" /\ "http_error" \in Faults
  /\ Fails("HTTP error")
  /\ UNCHANGED world

(* Mutant: a timeout counts as success.                                    *)
NoAnswerIsAccepted ==
  /\ pc \in {"send", "sent"} /\ "no_answer" \in Faults
  /\ Accepted
  /\ lost' = lost \cup {Current}
  /\ UNCHANGED <<stored, received, redirected>>

(* Mutant: the timeout bounds the connection, not the answer.              *)
NoConnection ==
  /\ pc = "send" /\ "no_answer" \in Faults
  /\ Fails("timed out")
  /\ lost' = lost \cup {Current}
  /\ UNCHANGED <<stored, received, redirected>>

(* The request or its answer is lost, and the attempt times out.           *)
NoAnswer ==
  /\ pc \in {"send", "sent"} /\ "no_answer" \in Faults
  /\ Fails("timed out")
  /\ lost' = lost \cup {Current}
  /\ UNCHANGED <<stored, received, redirected>>

(* 301, 302 or 303: urllib asks the new place with a GET that carries no   *)
(* payload, and takes its 2xx for the answer.                              *)
Redirected ==
  /\ pc = "send" /\ "redirected" \in Faults
  /\ \/ Accepted
     \/ Fails("HTTP error")
  /\ redirected' = redirected \cup {Current}
  /\ UNCHANGED <<stored, received, lost>>

(* The port speaks another protocol, as that of OTLP over gRPC does:       *)
(* http.client.BadStatusLine is no OSError and no ValueError.              *)
NotHTTP ==
  /\ pc = "send" /\ "not_http" \in Faults
  /\ Raises
  /\ UNCHANGED world

(* Another client deletes a run.                                           *)
Prune ==
  /\ "pruned" \in Faults
  /\ \E r \in stored : stored' = stored \ {r}
  /\ UNCHANGED <<command, received, lost, redirected>>

Request == Refused \/ Deliver \/ Succeeds \/ HTTPError \/ NoAnswer \/ Redirected \/ NotHTTP

Exited == pc \in {"exited", "raised"} /\ UNCHANGED vars

Next == Load \/ RunNotFound \/ PrintReports \/ Request \/ Prune \/ Exited

Spec == Init /\ [][Next]_vars

(* The command runs on.  Every request comes to an end because urlopen has *)
(* a timeout; nothing is assumed of the collector, so its answer (Succeeds)*)
(* may stay out forever.                                                   *)
FairSpec ==
  /\ Spec
  /\ WF_vars(Load \/ RunNotFound \/ PrintReports)
  /\ WF_vars(pc = "send" /\ Request)
  /\ WF_vars(NoAnswer)

-----------------------------------------------------------------------------
(* The command, its reports and what the collector has of the runs.        *)
TypeOK ==
  /\ stored \subseteq RunIds
  /\ pc \in {"next", "send", "sent", "exited", "raised"}
  /\ todo \in Seq(RunIds) /\ IsInjective(todo)
  /\ attempt \in 0 .. Attempts
  /\ detail \in Details \cup {None}
  /\ reports \in Seq(Report) /\ output \in {<< >>, reports}
  /\ received \in [RunIds -> 0 .. Attempts]

ReportsOf(r) == {i \in 1 .. Len(reports) : reports[i].run_id = r}

(* collector.py:10, the export "returns a report with the outcome": a run   *)
(* reported as accepted was recorded by the collector, unless a redirect   *)
(* made urllib drop the payload; and a run the collector recorded is       *)
(* reported as failed only if an answer was lost.                          *)
ReportsAreTrue ==
  \A i \in 1 .. Len(reports) :
     LET r == reports[i].run_id
     IN  /\ reports[i].status = "accepted" => received[r] > 0 \/ r \in redirected
         /\ reports[i].status = "failed" /\ received[r] > 0 => r \in lost

(* A collector that keeps every payload has a run more than once only when *)
(* an answer was lost, and never more often than README.md:1126 says, "The *)
(* workbench retries a request up to three times".                         *)
DuplicatesAreLostAnswers ==
  \A r \in RunIds : /\ received[r] <= Attempts
                    /\ received[r] > 1 => r \in lost

(* The command ends, whatever the collector does or fails to do.           *)
PublishEnds == <>(pc \in {"exited", "raised"})

(* README.md:1126, "A failed export keeps the report. It reports the HTTP  *)
(* status or the connection error": when the command has ended, each run   *)
(* whose export failed has a report in the output.                         *)
FailedExportsKeepReports ==
  /\ pc # "raised"
  /\ pc = "exited" => \A i \in 1 .. Len(reports) :
       reports[i].status = "failed" => \E j \in 1 .. Len(output) : output[j] = reports[i]
=============================================================================
