------------------------------ MODULE Evaluation ------------------------------
(***************************************************************************)
(* Replays and comparisons of the runs of one library, as the pages and    *)
(* routes of main.py and the commands of cli.py ask for them: the same     *)
(* stored traces go through both components, and both tell results apart   *)
(* by canonical_hash.                                                      *)
(***************************************************************************)
EXTENDS Replay, Compare

vars == <<handlers, policy, answer>>

CompareRuns(run_a, run_b) ==
  /\ answer = None
  /\ answer' = [kind |-> "comparison", run_a |-> run_a, run_b |-> run_b,
                tool_diffs |-> compare_runs(run_a, run_b)]
  /\ UNCHANGED engine

EvaluationInit == ReplayInit

EvaluationNext ==
  \/ ReplayNext
  \/ \E run_a, run_b \in TraceDocument : CompareRuns(run_a, run_b)

EvaluationSpec == EvaluationInit /\ [][EvaluationNext]_vars

Compared == answer # None /\ answer.kind = "comparison"

-----------------------------------------------------------------------------
StepRecord ==
  [call : Recorded, mode : Modes, replayed_outcome : Outcomes,
   replayed_result : Value, result_match : BOOLEAN]

(* The engine, and the shape of its reports.                               *)
TypeOK ==
  /\ handlers \in [Tools -> Handler \cup {None}]
  /\ policy \in ReplayPolicies
  /\ Replayed => /\ Len(answer.steps) = Len(answer.trace)
                 /\ \A i \in DOMAIN answer.steps : answer.steps[i] \in StepRecord

(* A run recorded again from the steps of a replay.                        *)
Rerecorded(steps) ==
  [i \in DOMAIN steps |-> [steps[i].call EXCEPT !.outcome = steps[i].replayed_outcome,
                                                !.result = steps[i].replayed_result]]

(* README.md:102 and :103: a replay and a comparison agree on what changed.*)
(* The run recorded again from a replay compares, position by position,    *)
(* with a changed result exactly where the replay found a mismatch, it is  *)
(* the same wherever no handler ran, and a result changes only where a     *)
(* handler returned one.                                                   *)
ReplaysAgreeWithComparisons ==
  Replayed =>
    LET diffs == compare_runs(answer.trace, Rerecorded(answer.steps))
    IN  \A i \in DOMAIN answer.steps :
          /\ diffs[i].result_changed <=> ~answer.steps[i].result_match
          /\ diffs[i].state # "same" => answer.steps[i].mode = "handler"
          /\ ~answer.steps[i].result_match => answer.steps[i].replayed_outcome = "success"

(* What a position tells in the other direction.  One that only one run    *)
(* has counts as a change of the arguments where it is removed, and not    *)
(* where it is added.                                                      *)
Mirrored(d) ==
  CASE d.state = "added"   -> [d EXCEPT !.state = "removed", !.arguments_changed = TRUE]
    [] d.state = "removed" -> [d EXCEPT !.state = "added", !.arguments_changed = FALSE]
    [] OTHER               -> d

(* compare.py:85, "by deterministic recorded position": but for the        *)
(* arguments of a position that one run does not have, a comparison tells  *)
(* in both directions the same of every position, the listed keys and the  *)
(* totals included, and positions are added or removed by exactly as many  *)
(* as one run is longer than the other.                                    *)
ComparisonsMirror ==
  Compared =>
    LET forth == answer.tool_diffs
        back == compare_runs(answer.run_b, answer.run_a)
    IN  /\ back = [i \in DOMAIN forth |-> Mirrored(forth[i])]
        /\ changed_tools(back) = changed_tools(forth)
        /\ outcome_changed_tools(back) = outcome_changed_tools(forth)
        /\ error_changed_tools(back) = error_changed_tools(forth)
        /\ added_tools(forth) - removed_tools(forth)
             = Len(answer.run_b) - Len(answer.run_a)
        /\ 0 \in {added_tools(forth), removed_tools(forth)}

(* v with the keys in K as w has them.                                     *)
Patched(v, w, K) ==
  [k \in (DOMAIN v \ K) \cup (DOMAIN w \cap K) |-> IF k \in K THEN w[k] ELSE v[k]]

(* Equal but for keys that are null in one and missing in the other.       *)
EqualButForNulls(v, w) ==
  LET NonNull(u) == [k \in {k \in DOMAIN u : u[k] # Null} |-> u[k]]
  IN  Equal(NonNull(v), NonNull(w))

(* Mappings differ in the keys K: these, and no fewer, taken over from the *)
(* second make the first equal to it.                                      *)
DifferIn(K, v, w) ==
  IF v \in Mapping /\ w \in Mapping
  THEN /\ EqualButForNulls(Patched(v, w, K), w)
       /\ \A k \in K : ~EqualButForNulls(Patched(v, w, K \ {k}), w)
  ELSE K = {}

(* README.md:785 and compare.py:168: the keys a position lists are exactly *)
(* those in which arguments or results differ, a missing key being as good *)
(* as a null one; a position that lists any is a changed one, and one that *)
(* lists keys of the result has a changed result.                          *)
ListedKeysChanged ==
  Compared =>
    \A i \in DOMAIN answer.tool_diffs :
      LET d == answer.tool_diffs[i]
          a == At(answer.run_a, i)
          b == At(answer.run_b, i)
      IN  /\ d.argument_keys_changed \cup d.result_keys_changed # {}
               => d.state = "changed"
          /\ d.result_keys_changed # {} => d.result_changed
          /\ a # None /\ b # None =>
               /\ DifferIn(d.argument_keys_changed, a.arguments, b.arguments)
               /\ DifferIn(d.result_keys_changed, a.result, b.result)

-----------------------------------------------------------------------------
(* What the repository says and the code does not do (see README.md).      *)

(* README.md:785, "Each row marks argument, result, and outcome deltas":   *)
(* what is a delta of the arguments in one direction is one in the other.  *)
DirectionsAgree ==
  Compared =>
    \A i \in DOMAIN answer.tool_diffs :
      compare_runs(answer.run_b, answer.run_a)[i].arguments_changed
        = answer.tool_diffs[i].arguments_changed
=============================================================================
