----------------------------- MODULE LibraryReport -----------------------------
(***************************************************************************)
(* The library report of storage.py: totals, rows by agent and by source   *)
(* folder, and the retention line.  Ten SELECTs make it up, and no         *)
(* transaction holds them together; it is one more request of the session  *)
(* of ReviewQueue (the review page asks for it too).                       *)
(***************************************************************************)
EXTENDS ReviewQueue

CONSTANTS
  AgentOf,       \* AgentOf[t]: the agent that trace t names
  SourceOf,      \* SourceOf[t]: the folder the file of trace t comes from
  FolderOf,      \* FolderOf[s]: _folder_name, s without outer blanks or "api"
  ToolSpans,     \* span IDs whose kind is tool
  RetentionAge   \* older_than_days, in ticks of the clock

Agents == {AgentOf[t] : t \in Traces}
Sources == {SourceOf[t] : t \in Traces}
Folders == {FolderOf[s] : s \in Sources}

ASSUME ReportAssumption ==
  /\ AgentOf \in [Traces -> Agents] /\ SourceOf \in [Traces -> Sources]
  /\ DOMAIN FolderOf = Sources
  /\ ToolSpans \subseteq SpanIds /\ IsFiniteSet(ToolSpans)
  /\ RetentionAge \in Nat \ {0}

-----------------------------------------------------------------------------
(* Aggregates over rows of runs.                                           *)

StoredRuns == {r \in RunIds : Stored(r)}
RunsOfAgent(a) == {r \in StoredRuns : AgentOf[runs[r].trace] = a}
RunsOfSource(s) == {r \in StoredRuns : SourceOf[runs[r].trace] = s}

Summary(R) ==
  [runs           |-> Cardinality(R),
   failure_runs   |-> Cardinality({r \in R : Status(r) = "error"}),
   unlabeled_runs |-> Cardinality({r \in R : runs[r].label = NoLabel})]

ToolRows(R) == {row \in R \X ToolSpans : row[2] \in spans[row[1]]}

ToolCalls(R) == Cardinality(ToolRows(R))

AgentsAmong(R) == Cardinality({AgentOf[runs[r].trace] : r \in R})

(* GROUP BY has no row for an agent or a source without runs, nor for one  *)
(* without tool calls if it is tool calls that are grouped.                *)
PresentAgents == {a \in Agents : RunsOfAgent(a) # {}}
PresentSources == {s \in Sources : RunsOfSource(s) # {}}
CallingAgents == {a \in Agents : ToolRows(RunsOfAgent(a)) # {}}
CallingSources == {s \in Sources : ToolRows(RunsOfSource(s)) # {}}

(* A dict by folder name keeps what one of the sources of that name gave.  *)
FoldersOf(S) == {FolderOf[s] : s \in S}
SourceNamed(f, S) == CHOOSE s \in S : FolderOf[s] = f

-----------------------------------------------------------------------------
(* The SELECTs in their order.                                             *)

Selects == <<"total", "tool_calls", "agents", "sources", "agent_tools",
             "source_tools", "source_agents", "eligible", "protected">>

OnReport == session # None /\ session.kind = "report"

Eligible == {r \in RunIds : Expired(runs[r], session.cutoff, TRUE)}

(* Mutant: every labeled run counts as protected, old or not.              *)
ProtectedAtAnyAge == {r \in StoredRuns : runs[r].label # NoLabel}

Protected == {r \in RunIds : Expired(runs[r], session.cutoff, FALSE) /\ runs[r].label # NoLabel}

Answer(part) ==
  CASE part = "total"         -> Summary(StoredRuns)
    [] part = "tool_calls"    -> ToolCalls(RunIds)
    [] part = "agents"        -> [a \in PresentAgents |-> Summary(RunsOfAgent(a))]
    [] part = "sources"       -> [s \in PresentSources |-> Summary(RunsOfSource(s))]
    [] part = "agent_tools"   -> [a \in CallingAgents |-> ToolCalls(RunsOfAgent(a))]
    [] part = "source_tools"  ->
         [f \in FoldersOf(CallingSources) |->
            ToolCalls(RunsOfSource(SourceNamed(f, CallingSources)))]
    [] part = "source_agents" ->
         [f \in FoldersOf(PresentSources) |->
            AgentsAmong(RunsOfSource(SourceNamed(f, PresentSources)))]
    [] part = "eligible"      -> Cardinality(Eligible)
    [] part = "protected"     -> Cardinality(Protected)

AskReport ==
  /\ session = None
  /\ session' = [kind |-> "report", cutoff |-> now - RetentionAge, answers |-> << >>]
  /\ since' = Nothing
  /\ UNCHANGED vars

ReportSelect ==
  /\ OnReport /\ Len(session.answers) < Len(Selects)
  /\ session' = [session EXCEPT !.answers =
                   Append(@, Answer(Selects[Len(session.answers) + 1]))]
  /\ UNCHANGED <<vars, since>>

Reported == OnReport /\ Len(session.answers) = Len(Selects)

Part(name) ==
  session.answers[CHOOSE i \in 1 .. Len(Selects) : Selects[i] = name]

(* dict.get(key, 0) *)
GetOr0(f, k) == IF k \in DOMAIN f THEN f[k] ELSE 0

(* The rows of the report, put together from the answers.                  *)
by_agent ==
  [a \in DOMAIN Part("agents") |->
     [summary |-> Part("agents")[a], tool_calls |-> GetOr0(Part("agent_tools"), a)]]

by_source ==
  [s \in DOMAIN Part("sources") |->
     [source_dir |-> FolderOf[s], summary |-> Part("sources")[s],
      tool_calls |-> GetOr0(Part("source_tools"), FolderOf[s]),
      agents     |-> GetOr0(Part("source_agents"), FolderOf[s])]]

-----------------------------------------------------------------------------
ReportInit == QueueInit
ReportNext == QueueNext \/ AskReport \/ ReportSelect
ReportSpec == ReportInit /\ [][ReportNext]_queueVars

-----------------------------------------------------------------------------
(* The sum of numbers f[k]: bars of these lengths side by side hold as     *)
(* many squares.                                                           *)
Total(f) == Cardinality(UNION {{k} \X (1 .. f[k]) : k \in DOMAIN f})

AddsUp(rows) ==
  /\ Total([k \in DOMAIN rows |-> rows[k].summary.runs]) = Part("total").runs
  /\ Total([k \in DOMAIN rows |-> rows[k].summary.failure_runs])
       = Part("total").failure_runs
  /\ Total([k \in DOMAIN rows |-> rows[k].summary.unlabeled_runs])
       = Part("total").unlabeled_runs
  /\ Total([k \in DOMAIN rows |-> rows[k].tool_calls]) = Part("tool_calls")

NamesDiffer == \A s, z \in DOMAIN Part("sources") : FolderOf[s] = FolderOf[z] => s = z

(* README.md:1447: if nobody changes the library meanwhile, the rows by    *)
(* agent and those by source folder both add up to the totals (those by    *)
(* folder as long as no two folders have one name), and the retention line *)
(* divides the old runs into those a label protects and those it does not. *)
ReportsAddUp ==
  Reported /\ since.commits = 0 =>
    /\ AddsUp(by_agent)
    /\ NamesDiffer => AddsUp(by_source)
    /\ Part("eligible") + Part("protected")
         = Cardinality({r \in RunIds : Expired(runs[r], session.cutoff, FALSE)})
    /\ Part("eligible") <= Part("total").unlabeled_runs
    /\ Part("protected") <= Part("total").runs - Part("total").unlabeled_runs
=============================================================================
