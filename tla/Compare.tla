-------------------------------- MODULE Compare --------------------------------
(* The comparison of two runs by recorded position (compare.py).           *)
EXTENDS ToolCalls

(* Absent positions are None.                                              *)
At(trace, i) == IF i \in DOMAIN trace THEN trace[i] ELSE None

(* value.get(key) *)
Get(v, k) == IF k \in DOMAIN v THEN v[k] ELSE Null

(* Mutant: the values of a key are told apart by their text.               *)
ChangedTexts(v, w) ==
  IF v \in Mapping /\ w \in Mapping
  THEN {k \in DOMAIN v \cup DOMAIN w : Get(v, k) # Get(w, k)}
  ELSE {}

(* _changed_keys *)
ChangedKeys(v, w) ==
  IF v \in Mapping /\ w \in Mapping
  THEN {k \in DOMAIN v \cup DOMAIN w : ValueOf[Get(v, k)] # ValueOf[Get(w, k)]}
  ELSE {}

Added(b) ==
  [state |-> "added", arguments_changed |-> FALSE, outcome_changed |-> TRUE,
   result_changed |-> TRUE, error_changed |-> b.error # None,
   argument_keys_changed |-> {}, result_keys_changed |-> {}]

Removed(a) ==
  [state |-> "removed", arguments_changed |-> TRUE, outcome_changed |-> TRUE,
   result_changed |-> TRUE, error_changed |-> a.error # None,
   argument_keys_changed |-> {}, result_keys_changed |-> {}]

(* A position both runs have.                                              *)
Matched(a, b) ==
  LET arguments_changed == ~Equal(a.arguments, b.arguments)
      outcome_changed == a.outcome # b.outcome
      result_changed == ~SameHash(a.result, b.result)
      same == a.name = b.name /\ ~arguments_changed /\ ~outcome_changed /\ ~result_changed
  IN  [state                 |-> IF same THEN "same" ELSE "changed",
       arguments_changed     |-> arguments_changed \/ a.name # b.name,
       outcome_changed       |-> outcome_changed,
       result_changed        |-> result_changed,
       error_changed         |-> a.error # b.error,
       argument_keys_changed |-> ChangedKeys(a.arguments, b.arguments),
       result_keys_changed   |-> ChangedKeys(a.result, b.result)]

(* Mutant: an added call that failed is a change of an empty position.     *)
DiffOfFailures(a, b) ==
  IF a = None THEN IF b.outcome = "failure" THEN [Added(b) EXCEPT !.state = "changed"]
                                            ELSE Added(b)
  ELSE IF b = None THEN Removed(a)
  ELSE Matched(a, b)

(* _diff *)
Diff(a, b) ==
  IF a = None THEN Added(b)
  ELSE IF b = None THEN Removed(a)
  ELSE Matched(a, b)

Longer(m, n) == IF m < n THEN n ELSE m

compare_runs(run_a, run_b) ==
  [i \in 1 .. Longer(Len(run_a), Len(run_b)) |-> Diff(At(run_a, i), At(run_b, i))]

-----------------------------------------------------------------------------
(* Counts of the report.                                                   *)

Count(diffs, states) == Cardinality({i \in DOMAIN diffs : diffs[i].state \in states})

changed_tools(diffs) == Count(diffs, {"changed", "added", "removed"})
added_tools(diffs) == Count(diffs, {"added"})
removed_tools(diffs) == Count(diffs, {"removed"})
outcome_changed_tools(diffs) == Cardinality({i \in DOMAIN diffs : diffs[i].outcome_changed})
error_changed_tools(diffs) == Cardinality({i \in DOMAIN diffs : diffs[i].error_changed})
=============================================================================
