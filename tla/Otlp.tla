--------------------------------- MODULE Otlp ---------------------------------
(***************************************************************************)
(* Trace documents (models.py) and their conversion to OTLP JSON and back  *)
(* (otlp.py).  A document becomes one resourceSpans entry, a group; a      *)
(* payload is a sequence of groups, of this workbench or of others.        *)
(*                                                                         *)
(* The attributes of a group or a span are functions from keys to values.  *)
(* The keys workbench.tool_call.* are one key here, and "otlp.events"      *)
(* stands for links and the trace state too.  JSON texts of arguments,     *)
(* results and metadata come back as the values they were written from.    *)
(***************************************************************************)
EXTENDS Compare, SequencesExt

CONSTANTS
  RunIds, TraceIds, Agents,
  SpanIds,       \* span IDs, Blank perhaps, which a parent_span_id may be
  Zones,         \* UTC offsets timestamps are written with, "UTC" among them
  UserKeys,      \* keys of attributes users set, "otlp.events" perhaps among them
  UserValues,    \* values of attributes; one under "otlp.events" is not null
  Decoded,       \* Decoded[v]: the value that v, written as an attribute, is read as
  EventsDecoded, \* EventsDecoded[v]: the same under the key "otlp.events"
  Blank,         \* the empty string, an agent version perhaps
  IdOrder,       \* IdOrder[s]: the place of span ID s among all IDs
  SpanHex,       \* SpanHex[s]: s itself if it is an OTLP span ID, else its hash
  TraceHex,      \* TraceHex[t]: the same of a trace ID
  Derived        \* Derived[<<a, t>>]: the run ID made from agent a and trace ID t

Kinds == {"agent", "tool", "llm", "internal"}
Statuses == {"ok", "error", "unset"}

ASSUME OtlpAssumption ==
  /\ "UTC" \in Zones
  /\ Decoded \in [UserValues -> UserValues] /\ EventsDecoded \in [UserValues -> UserValues]
  /\ \A missing \in {None, Blank} :
       missing \notin Kinds \cup Statuses \cup Nat \cup ToolCall \cup RunIds \cup TraceIds \cup {"local"}
  /\ None \notin SpanIds \cup UserValues
  /\ IdOrder \in [SpanIds -> Nat] /\ IsInjective(IdOrder)
  /\ SpanHex \in [SpanIds -> SpanIds] /\ TraceHex \in [TraceIds -> TraceIds]
  /\ Derived \in [Agents \X TraceIds -> RunIds]

-----------------------------------------------------------------------------
(* Documents.  A timestamp is an instant, counted in half seconds from     *)
(* 1970, and the offset it is written with.  extra stands for the fields   *)
(* the contract allows beyond its own.                                     *)

Timestamp == [at : Int, zone : Zones]

EmptyMetadata == << >>

Earliest(T) == CHOOSE s \in T : \A u \in T : s.at <= u.at
Latest(T) == CHOOSE s \in T : \A u \in T : u.at <= s.at

(* The fields of the contract, validate_time_range, validate_document.     *)
ValidSpan(s) ==
  /\ s.span_id \in SpanIds \ {Blank} /\ s.parent_span_id \in SpanIds \cup {None}
  /\ s.kind \in Kinds /\ s.status \in Statuses
  /\ s.sequence \in Nat \cup {None} /\ s.tool_call \in ToolCall \cup {None}
  /\ \A k \in DOMAIN s.attributes : s.attributes[k] \in UserValues
  /\ {s.start_time, s.end_time} \subseteq Timestamp
  /\ s.start_time.at <= s.end_time.at
  /\ s.kind = "tool" => s.tool_call # None

Valid(d) ==
  /\ d.run_id \in RunIds /\ d.trace_id \in TraceIds /\ d.agent_name \notin {None, Blank}
  /\ d.agent_version # None
  /\ d.spans # {} /\ IsFiniteSet(d.spans)
  /\ \A s \in d.spans : ValidSpan(s)
  /\ \A s, u \in d.spans : s.span_id = u.span_id => s = u
  /\ d.started_at.at <= d.ended_at.at

(* ordered_spans: by sequence, those without one last, then by start and   *)
(* span ID.                                                                *)
OrderKey(s) ==
  <<IF s.sequence = None THEN 1 ELSE 0, IF s.sequence = None THEN 0 ELSE s.sequence,
    s.start_time.at, IdOrder[s.span_id]>>

OrderedBefore(s, u) ==
  \E i \in 1 .. 4 : /\ OrderKey(s)[i] < OrderKey(u)[i]
                    /\ \A j \in 1 .. i - 1 : OrderKey(s)[j] = OrderKey(u)[j]

(* The place of s among the spans S in that order.                         *)
Position(S, s) == Cardinality({u \in S : OrderedBefore(u, s)}) + 1

Sorted(S) == [i \in 1 .. Cardinality(S) |-> CHOOSE s \in S : Position(S, s) = i]

ordered_spans(d) == Sorted(d.spans)

(* tool_spans: their calls, as compare_runs and the replay see them.       *)
tool_calls(d) ==
  LET tools == Sorted({s \in d.spans : s.kind = "tool"})
  IN  [i \in 1 .. Len(tools) |-> tools[i].tool_call]

status(d) ==
  IF \E s \in d.spans : \/ s.status = "error"
                        \/ s.tool_call # None /\ s.tool_call.outcome = "failure"
  THEN "error" ELSE "ok"

-----------------------------------------------------------------------------
(* Export.                                                                 *)

(* Fields that are None are not written, and attributes of one kind lie    *)
(* over those of another.                                                  *)
Written(fields) == Restrict(fields, {key \in DOMAIN fields : fields[key] # None})

Over(f, g) ==
  [key \in DOMAIN f \cup DOMAIN g |-> IF key \in DOMAIN f THEN f[key] ELSE g[key]]

(* int() cuts towards zero, and the microseconds are added.                *)
Nanos(t) ==
  LET whole == IF t.at >= 0 THEN t.at \div 2 ELSE -((-t.at) \div 2)
  IN  2 * whole + (t.at % 2)

(* The workbench.* attributes.                                             *)
OwnKeys == {"workbench.span_id", "workbench.kind", "workbench.sequence",
            "workbench.parent_span_id", "workbench.status", "workbench.tool_call"}

Reserved(key) == key \in OwnKeys \cup {"workbench.other"}

OwnAttributes(s) ==
  Written([key \in OwnKeys |->
    CASE key = "workbench.span_id"        -> s.span_id
      [] key = "workbench.kind"           -> s.kind
      [] key = "workbench.sequence"       -> s.sequence
      [] key = "workbench.parent_span_id" -> s.parent_span_id
      [] key = "workbench.status"         -> IF s.status = "ok" THEN None ELSE s.status
      [] key = "workbench.tool_call"      -> s.tool_call])

_span_to_otlp(d, s) ==
  [traceId      |-> TraceHex[d.trace_id],
   spanId       |-> SpanHex[s.span_id],
   parentSpanId |-> IF s.parent_span_id = None THEN None ELSE SpanHex[s.parent_span_id],
   start        |-> Nanos(s.start_time),
   end          |-> Nanos(s.end_time),
   attributes   |-> Over(OwnAttributes(s),
                         [k \in DOMAIN s.attributes \ {"otlp.events"} |-> Decoded[s.attributes[k]]]),
   events       |-> IF "otlp.events" \in DOMAIN s.attributes
                    THEN s.attributes["otlp.events"] ELSE None,
   code         |-> IF s.status = "ok" THEN 1 ELSE 2]

ResourceKeys == {"service.name", "service.version", "workbench.run_id", "workbench.trace_id"}

Resource(d) ==
  LET metadata == IF d.metadata = EmptyMetadata THEN {} ELSE {"workbench.metadata"}
  IN  Over([key \in metadata |-> d.metadata],
           [key \in ResourceKeys |->
             CASE key = "service.name"       -> d.agent_name
               [] key = "service.version"    -> d.agent_version
               [] key = "workbench.run_id"   -> d.run_id
               [] key = "workbench.trace_id" -> d.trace_id])

trace_to_otlp_json(d) ==
  LET spans == ordered_spans(d)
  IN  <<[attributes |-> Resource(d),
         spans      |-> [i \in 1 .. Len(spans) |-> _span_to_otlp(d, spans[i])]]>>

-----------------------------------------------------------------------------
(* Import.                                                                 *)

(* dict.get(key) or otherwise                                              *)
GetOr(attributes, key, otherwise) ==
  IF key \in DOMAIN attributes /\ attributes[key] \notin {None, Blank}
  THEN attributes[key] ELSE otherwise

(* Mutant: only the status code is read.                                   *)
StatusOfCode(attributes, code) ==
  CASE code = 2 -> "error" [] code = 1 -> "ok" [] OTHER -> "unset"

_normalized_status(attributes, code) ==
  IF "workbench.status" \in DOMAIN attributes /\ attributes["workbench.status"] \in Statuses
  THEN attributes["workbench.status"]
  ELSE CASE code = 2 -> "error" [] code = 1 -> "ok" [] OTHER -> "unset"

_normalized_kind(attributes) ==
  LET kind == GetOr(attributes, "workbench.kind", "internal")
  IN  IF kind \notin Kinds \/ (kind = "tool" /\ "workbench.tool_call" \notin DOMAIN attributes)
      THEN "internal" ELSE kind

_normalized_sequence(attributes) ==
  IF "workbench.sequence" \in DOMAIN attributes /\ attributes["workbench.sequence"] \in Nat
  THEN attributes["workbench.sequence"] ELSE None

_span_to_trace_span(s) ==
  LET a == s.attributes
      users == {k \in DOMAIN a : ~Reserved(k)}
      events == IF s.events = None THEN {} ELSE {"otlp.events"}
  IN  [span_id        |-> GetOr(a, "workbench.span_id", s.spanId),
       parent_span_id |-> GetOr(a, "workbench.parent_span_id",
                                IF s.parentSpanId = Blank THEN None ELSE s.parentSpanId),
       kind           |-> _normalized_kind(a),
       status         |-> _normalized_status(a, s.code),
       sequence       |-> _normalized_sequence(a),
       start_time     |-> [at |-> s.start, zone |-> "UTC"],
       end_time       |-> [at |-> s.end, zone |-> "UTC"],
       tool_call      |-> GetOr(a, "workbench.tool_call", None),
       attributes     |-> [k \in users \cup events |->
                             IF k \in events THEN EventsDecoded[s.events] ELSE a[k]]]

(* Documents without metadata get the attributes of their resource.        *)
_import_metadata(a) ==
  LET resource == DOMAIN a \ {"workbench.run_id", "workbench.trace_id"}
  IN  IF "workbench.metadata" \in DOMAIN a THEN a["workbench.metadata"]
      ELSE IF resource = {} THEN EmptyMetadata
      ELSE [otlp_resource |-> [k \in resource |-> a[k]]]

_resource_spans_to_document(group) ==
  LET a == group.attributes
      spans == {_span_to_trace_span(group.spans[i]) : i \in 1 .. Len(group.spans)}
      trace == group.spans[1].traceId
      agent == GetOr(a, "service.name", "unknown-agent")
  IN  [run_id        |-> GetOr(a, "workbench.run_id", Derived[<<agent, trace>>]),
       trace_id      |-> GetOr(a, "workbench.trace_id", trace),
       agent_name    |-> agent,
       agent_version |-> GetOr(a, "service.version", "local"),
       metadata      |-> _import_metadata(a),
       started_at    |-> Earliest({s.start_time : s \in spans}),
       ended_at      |-> Latest({s.end_time : s \in spans}),
       spans         |-> spans,
       extra         |-> None]

(* One document for each group with spans.                                 *)
parse_otlp_json(payload) ==
  LET entries == {i \in DOMAIN payload : payload[i].spans # << >>}
      Entry(n) == CHOOSE i \in entries : Cardinality({j \in entries : j <= i}) = n
  IN  [n \in 1 .. Cardinality(entries) |-> _resource_spans_to_document(payload[Entry(n)])]

(* No ValueError: every document passes the validation of the contract.    *)
Parses(payload) ==
  LET documents == parse_otlp_json(payload)
  IN  \A i \in 1 .. Len(documents) : Valid(documents[i])

RoundTrip(d) == parse_otlp_json(trace_to_otlp_json(d))[1]
=============================================================================
