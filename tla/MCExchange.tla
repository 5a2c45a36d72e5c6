------------------------------ MODULE MCExchange ------------------------------
(* An instance of Exchange for TLC. *)
EXTENDS Exchange

CONSTANTS r1, r2, f1, w1, o1, sa, sb, h1, h2, bot, other, search, param, v1, null, text,
          listed, happened, bare, n1, n2, x1, timeout, Tags

MCZones == {"UTC", "+02:00"}
MCValueOf == (v1 :> 1) @@ (Null :> 0)
MCIdOrder == (Blank :> 0) @@ (sa :> 1) @@ (sb :> 2) @@ (h1 :> 3) @@ (h2 :> 4)
MCSpanHex == (sa :> h1) @@ (sb :> h2) @@ (h1 :> h1) @@ (h2 :> h2) @@ (Blank :> h1)
MCTraceHex == (w1 :> o1) @@ (o1 :> o1)
MCDerived == [x \in Agents \X TraceIds |-> f1]

(* null is written as a text; an event's list of attributes is read as a    *)
(* dict, and a dict of attributes as {}.                                    *)
MCDecoded == [v \in UserValues |-> IF v = null THEN text ELSE v]
MCEventsDecoded ==
  [v \in UserValues |-> CASE v = listed -> happened [] v = happened -> bare [] OTHER -> v]

MCFileName == (r1 :> n1) @@ (r2 :> n2) @@ (f1 :> n2)

Failure == [name |-> search, arguments |-> param :> v1, result |-> Null,
            outcome |-> "failure", error |-> timeout]
Success == [name |-> search, arguments |-> << >>, result |-> param :> Null,
            outcome |-> "success", error |-> None]
MCRecorded == {Failure, Success}

At0(t, z) == [at |-> t, zone |-> z]

Span(id, parent, kind, stat, seq, t, u, attributes, tool) ==
  [span_id |-> id, parent_span_id |-> parent, kind |-> kind, status |-> stat,
   sequence |-> seq, start_time |-> At0(t, "+02:00"), end_time |-> At0(u, "+02:00"),
   attributes |-> attributes, tool_call |-> tool]

Document(r, version, metadata, start, end, S, extra) ==
  [run_id |-> r, trace_id |-> w1, agent_name |-> bot, agent_version |-> version,
   metadata |-> metadata, started_at |-> At0(start, "+02:00"),
   ended_at |-> At0(end, "+02:00"), spans |-> S, extra |-> extra]

(* A run with a failed call, without one, with an attribute under a key of  *)
(* the workbench; and one from half a second before 1970.                  *)
MCDocuments ==
  {Document(r1, Blank, EmptyMetadata, 1, 5,
            {Span(sa, None, "agent", "ok", None, 2, 5, "otlp.events" :> happened, None),
             Span(sb, sa, "tool", "unset", 1, 3, 4, "note" :> null, Failure)}, x1),
   Document(r1, "local", Tags, 2, 5,
            {Span(sb, None, "tool", "ok", 2, 2, 5, "otlp.events" :> listed, Success),
             Span(sa, sb, "tool", "error", None, 2, 4, << >>, Success)}, None),
   Document(r2, "local", Tags, 2, 5,
            {Span(sa, Blank, "internal", "ok", 0, 2, 5, "workbench.status" :> "error", None)}, None),
   Document(r2, "local", Tags, -3, -2,
            {Span(sa, None, "tool", "ok", 0, -3, -2, << >>, Success)}, None)}

Foreign(name, parent, times) ==
  [attributes |-> "service.name" :> other,
   spans |-> <<[traceId |-> o1, spanId |-> name, parentSpanId |-> parent,
                start |-> 2, end |-> times,
                attributes |-> "note" :> text, events |-> None, code |-> 0]>>]

(* Two services that share a trace, the first group without spans; and a   *)
(* payload one of whose spans ends before it starts.                       *)
MCPayloads ==
  {<<[attributes |-> << >>, spans |-> << >>], Foreign(h1, Blank, 3), Foreign(h2, None, 4)>>,
   <<Foreign(h1, None, 3), Foreign(h2, None, 1)>>}

MCReleases ==
  {[tables |-> {}, columns |-> {}],
   [tables |-> {"runs"}, columns |-> {}],
   [tables |-> {"runs"}, columns |-> {"label"}]}

MCTables == <<"runs", "review_decision_history">>
MCExtraColumns == <<"label", "decision">>
=============================================================================
