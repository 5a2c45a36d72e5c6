------------------------------- MODULE ToolCalls -------------------------------
(***************************************************************************)
(* Recorded tool calls (ToolCall of models.py) and the two ways in which   *)
(* the workbench tells their JSON values apart: Python's ==, and the       *)
(* canonical hash of replay.py, which is the hash of the JSON text.  1 and *)
(* 1.0 are equal and have different texts.                                 *)
(***************************************************************************)
EXTENDS Integers, Sequences, FiniteSets

CONSTANTS
  Tools,      \* tool names
  Keys,       \* top-level keys of arguments and results
  Scalars,    \* JSON values that are no mappings, told apart by their text
  ValueOf,    \* ValueOf[s]: the Python value s is equal to
  Null,       \* JSON null
  Errors,     \* error texts of calls
  Recorded,   \* calls that traces record
  MaxCalls,   \* bound: tool calls of one trace
  None

Mapping == UNION {[K -> Scalars] : K \in SUBSET Keys}

ASSUME ScalarAssumption ==
  /\ DOMAIN ValueOf = Scalars
  /\ Null \in Scalars
  /\ \A s \in Scalars : (ValueOf[s] = ValueOf[Null] => s = Null) /\ s \notin Mapping
  /\ MaxCalls \in Nat

Value == Mapping \cup Scalars

Outcomes == {"success", "failure", "unknown"}

ToolCall == [name : Tools, arguments : Mapping, result : Value,
             outcome : Outcomes, error : Errors \cup {None}]

ASSUME RecordedAssumption == Recorded \subseteq ToolCall /\ None \notin ToolCall

(* tool_spans of a trace document, in recorded order.                      *)
TraceDocument == UNION {[1 .. n -> Recorded] : n \in 0 .. MaxCalls}

(* Python's == on JSON values.                                             *)
Equal(v, w) ==
  \/ v \in Scalars /\ w \in Scalars /\ ValueOf[v] = ValueOf[w]
  \/ /\ v \in Mapping /\ w \in Mapping
     /\ DOMAIN v = DOMAIN w
     /\ \A k \in DOMAIN v : ValueOf[v[k]] = ValueOf[w[k]]

(* canonical_hash: equal exactly when the JSON texts are.                  *)
SameHash(v, w) == v = w
=============================================================================
