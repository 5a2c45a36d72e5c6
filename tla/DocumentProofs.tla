----------------------------- MODULE DocumentProofs -----------------------------
(***************************************************************************)
(* Proofs about what the program does with whole documents: Evaluation,    *)
(* for every set of tools, values, calls and handlers; Migration, Otlp and *)
(* Exchange, for every set of processes, every schema and database found   *)
(* on disk, all documents of the contract and all payloads.                *)
(*                                                                         *)
(* What a replay or a comparison says follows from what it was computed    *)
(* from, which AnswerInv remembers.                                        *)
(*                                                                         *)
(* The openings are safe because the schema only grows and an opening      *)
(* still has on its list whatever is missing from it: OpeningInv.  Every   *)
(* step of the exchange is a step of Migration or leaves its variables.    *)
(*                                                                         *)
(* A document that is exported and imported comes back with its spans, one *)
(* by one as Kept describes them and in the same order; that much about    *)
(* the conversion, and ExchangeInv about the jobs, is all that the         *)
(* properties of the exchange need.                                        *)
(***************************************************************************)
EXTENDS Evaluation, Exchange, FiniteSetTheorems, TLAPS

-----------------------------------------------------------------------------
(***************************************************************************)
(* Replays and comparisons.                                                *)
(***************************************************************************)

(* An answer is about documents the library has, and a replay under way    *)
(* was made by the handlers the engine still has.                          *)
AnswerInv ==
  /\ Replayed =>
       /\ answer.trace \in TraceDocument
       /\ DOMAIN answer.steps = 1 .. Len(answer.trace)
       /\ \A i \in 1 .. Len(answer.trace) :
             answer.steps[i] \in Steps(answer.trace[i], answer.policy)
  /\ Compared =>
       /\ answer.run_a \in TraceDocument /\ answer.run_b \in TraceDocument
       /\ answer.tool_diffs = compare_runs(answer.run_a, answer.run_b)

EngineTypeOK ==
  /\ handlers \in [Tools -> Handler \cup {None}]
  /\ policy \in ReplayPolicies

EvaluationInv == EngineTypeOK /\ AnswerInv

-----------------------------------------------------------------------------
(* Documents.                                                              *)

(* A document is a sequence of recorded calls. *)
LEMMA RecordedCalls ==
  ASSUME NEW t \in TraceDocument
  PROVE  /\ Len(t) \in Nat /\ DOMAIN t = 1 .. Len(t)
         /\ \A i \in 1 .. Len(t) : t[i] \in Recorded /\ t[i] \in ToolCall /\ t[i] # None
<1>1. PICK n \in 0 .. MaxCalls : t \in [1 .. n -> Recorded]
  BY DEF TraceDocument
<1>2. n \in Nat
  BY <1>1, ScalarAssumption
<1>3. Len(t) = n /\ DOMAIN t = 1 .. n
  BY <1>1, <1>2
<1>4. QED
  BY <1>1, <1>2, <1>3, RecordedAssumption

(* A position is absent exactly beyond the end of the document. *)
LEMMA Positions ==
  ASSUME NEW t \in TraceDocument, NEW i \in Nat \ {0}
  PROVE  /\ At(t, i) = None <=> i > Len(t)
         /\ At(t, i) # None => At(t, i) \in ToolCall
BY RecordedCalls DEF At

-----------------------------------------------------------------------------
(* The engine and its answers.                                             *)

(* A configuration gives the tools it names handlers. *)
LEMMA UpdatedType ==
  ASSUME EngineTypeOK, NEW config \in Config, Builds(config.handlers)
  PROVE  Updated(config.handlers) \in [Tools -> Handler \cup {None}]
<1> DEFINE entries == config.handlers
<1>1. PICK n \in 0 .. MaxEntries : entries \in [1 .. n -> Entry]
  BY DEF Config
<1>2. \A i \in DOMAIN entries :
        /\ entries[i].side_effect \in Levels
        /\ entries[i].result \in FixedResults \cup {None}
  BY <1>1 DEF Entry
<1>3. ASSUME NEW t \in Tools, \E i \in DOMAIN entries : entries[i].tool = t
      PROVE  LET i == CHOOSE i \in DOMAIN entries : entries[i].tool = t
             IN  [side_effect |-> entries[i].side_effect,
                  fixed_result |-> entries[i].result] \in Handler
  BY <1>2, <1>3 DEF Handler
<1>4. QED
  BY <1>3 DEF EngineTypeOK, Updated

LEMMA InitEvaluation == EvaluationInit => EvaluationInv
<1> SUFFICES ASSUME EvaluationInit PROVE EvaluationInv
  OBVIOUS
<1>1. EngineTypeOK
  BY DEF EvaluationInit, ReplayInit, EngineTypeOK, Handler, Levels, ReplayPolicies
<1>2. QED
  BY <1>1 DEF EvaluationInit, ReplayInit, EvaluationInv, AnswerInv, Replayed, Compared

(* While an answer is under way, the engine stays as it is. *)
LEMMA NextEvaluation == EvaluationInv /\ [EvaluationNext]_vars => EvaluationInv'
<1> SUFFICES ASSUME EvaluationInv, [EvaluationNext]_vars PROVE EvaluationInv'
  OBVIOUS
<1> USE DEF EvaluationInv
<1>1. CASE Return
  BY <1>1 DEF Return, engine, EngineTypeOK, AnswerInv, Replayed, Compared
<1>2. ASSUME NEW t \in Tools, NEW level \in Levels, Register(t, level) PROVE EvaluationInv'
  BY <1>2 DEF Register, EngineTypeOK, AnswerInv, Replayed, Compared, Handler
<1>3. ASSUME NEW p \in ReplayPolicies, SetPolicy(p) PROVE EvaluationInv'
  BY <1>3 DEF SetPolicy, EngineTypeOK, AnswerInv, Replayed, Compared
<1>4. ASSUME NEW config \in Config, LoadConfig(config) PROVE EvaluationInv'
  <2>1. config.policy \in ReplayPolicies
    BY DEF Config
  <2>2. QED
    BY <1>4, <2>1, UpdatedType
    DEF LoadConfig, EngineTypeOK, AnswerInv, Replayed, Compared
<1>5. ASSUME NEW config \in Config, LoadConfigFails(config) PROVE EvaluationInv'
  <2>1. config.policy \in ReplayPolicies
    BY DEF Config
  <2>2. QED
    BY <1>5, <2>1 DEF LoadConfigFails, EngineTypeOK, AnswerInv, Replayed, Compared
<1>6. ASSUME NEW trace \in TraceDocument, ReplayRun(trace) PROVE EvaluationInv'
  <2>1. PICK steps \in [1 .. Len(trace) -> UNION {Steps(trace[i], policy) : i \in DOMAIN trace}] :
          /\ \A i \in DOMAIN trace : steps[i] \in Steps(trace[i], policy)
          /\ answer' = [kind |-> "replay", trace |-> trace, policy |-> policy,
                        steps |-> steps]
    BY <1>6 DEF ReplayRun
  <2>2. handlers' = handlers /\ policy' = policy
    BY <1>6 DEF ReplayRun, engine
  <2>3. \A i \in DOMAIN trace : Steps(trace[i], policy)' = Steps(trace[i], policy)
    BY <2>2 DEF Steps, Mode, Step, Executions
  <2>4. \A i \in 1 .. Len(trace) : steps[i] \in Steps(trace[i], policy)'
    BY <2>1, <2>3, RecordedCalls
  <2>5. AnswerInv'
    BY <2>1, <2>2, <2>4 DEF AnswerInv, Replayed, Compared, Steps, Mode, Step, Executions
  <2>6. QED
    BY <2>2, <2>5 DEF EngineTypeOK
<1>7. ASSUME NEW run_a \in TraceDocument, NEW run_b \in TraceDocument,
             CompareRuns(run_a, run_b)
      PROVE  EvaluationInv'
  BY <1>7 DEF CompareRuns, engine, EngineTypeOK, AnswerInv, Replayed, Compared
<1>8. CASE UNCHANGED vars
  <2>1. answer' = answer /\ handlers' = handlers /\ policy' = policy
    BY <1>8 DEF vars
  <2>2. \A i : Steps(answer.trace[i], answer.policy)' = Steps(answer.trace[i], answer.policy)
    BY <2>1 DEF Steps, Mode, Step, Executions
  <2>3. QED
    BY <2>1, <2>2 DEF EngineTypeOK, AnswerInv, Replayed, Compared
<1>9. QED
  BY <1>1, <1>2, <1>3, <1>4, <1>5, <1>6, <1>7, <1>8 DEF EvaluationNext, ReplayNext

THEOREM EvaluationInvariance == EvaluationSpec => []EvaluationInv
BY InitEvaluation, NextEvaluation, PTL DEF EvaluationSpec

-----------------------------------------------------------------------------
(* Replays.                                                                *)

(* A step records its call.  Without a handler the recorded result stands; *)
(* with one, a result is either the handler's, of a success, or recorded.  *)
LEMMA StepFacts ==
  ASSUME EngineTypeOK, NEW call \in ToolCall, NEW p, NEW step \in Steps(call, p)
  PROVE  /\ step.call = call
         /\ step.mode \in Modes
         /\ step.replayed_outcome \in Outcomes
         /\ step.replayed_result \in Value
         /\ step.result_match \in BOOLEAN
         /\ step.result_match <=> SameHash(call.result, step.replayed_result)
         /\ step.mode # "handler" => /\ step.replayed_outcome = call.outcome
                                     /\ step.replayed_result = call.result
         /\ ~step.result_match => step.replayed_outcome = "success"
         /\ step \in [call : {call}, mode : Modes, replayed_outcome : Outcomes,
                      replayed_result : Value, result_match : BOOLEAN]
<1>1. /\ call.name \in Tools /\ call.result \in Value /\ call.outcome \in Outcomes
  BY DEF ToolCall
<1>2. Mode(call, p) \in Modes
  BY DEF Mode, Modes
<1>3. CASE Mode(call, p) = "handler"
  <2>1. handlers[call.name] \in Handler
    BY <1>1, <1>3 DEF EngineTypeOK, Mode
  <2>2. PICK run \in Executions(call) : step = Step(call, p, run[1], run[2])
    BY <1>3 DEF Steps
  <2>3. /\ run[1] \in Outcomes /\ run[2] \in Value
        /\ run[1] # "success" => run[2] = call.result
    <3>1. CASE handlers[call.name].fixed_result # None
      BY <2>1, <2>2, <3>1, ReplayAssumption DEF Executions, Handler, Outcomes
    <3>2. CASE handlers[call.name].fixed_result = None
      BY <1>1, <2>2, <3>2 DEF Executions, Outcomes
    <3>3. QED
      BY <3>1, <3>2
  <2>4. QED
    BY <1>2, <1>3, <2>2, <2>3 DEF Step, SameHash
<1>4. CASE Mode(call, p) # "handler"
  <2>1. step = Step(call, p, call.outcome, call.result)
    BY <1>4 DEF Steps
  <2>2. QED
    BY <1>1, <1>2, <1>4, <2>1 DEF Step, SameHash
<1>5. QED
  BY <1>3, <1>4

(* A call recorded again differs from the call in what its replay changed. *)
LEMMA RerecordedDiff ==
  ASSUME EngineTypeOK, NEW call \in ToolCall, NEW p, NEW step \in Steps(call, p),
         NEW again, again = [step.call EXCEPT !.outcome = step.replayed_outcome,
                                              !.result = step.replayed_result]
  PROVE  /\ Diff(call, again).result_changed <=> ~step.result_match
         /\ Diff(call, again).state # "same" => step.mode = "handler"
         /\ ~step.result_match => step.replayed_outcome = "success"
<1>1. /\ again \in ToolCall
      /\ again.name = call.name /\ again.arguments = call.arguments
      /\ again.outcome = step.replayed_outcome /\ again.result = step.replayed_result
  <2>1. step.call = call /\ step.replayed_outcome \in Outcomes
        /\ step.replayed_result \in Value
    BY StepFacts
  <2>2. QED
    BY <2>1 DEF ToolCall
<1>2. call # None /\ again # None
  BY <1>1, RecordedAssumption
<1>3. Equal(call.arguments, call.arguments)
  BY DEF ToolCall, Equal
<1>4. Diff(call, again) = Matched(call, again)
  BY <1>2 DEF Diff
<1>5. Matched(call, again).result_changed <=> ~step.result_match
  BY <1>1, StepFacts DEF Matched
<1>6. step.mode # "handler" => Matched(call, again).state = "same"
  BY <1>1, <1>3, StepFacts DEF Matched, SameHash
<1>7. QED
  BY <1>4, <1>5, <1>6, StepFacts

(* The engine and its reports keep their shape. *)
THEOREM EvaluationTypes == EvaluationSpec => []TypeOK
<1>1. EvaluationInv => TypeOK
  <2> SUFFICES ASSUME EvaluationInv, Replayed
               PROVE  /\ Len(answer.steps) = Len(answer.trace)
                      /\ \A i \in DOMAIN answer.steps : answer.steps[i] \in StepRecord
    BY DEF EvaluationInv, EngineTypeOK, TypeOK
  <2>1. Len(answer.trace) \in Nat /\ DOMAIN answer.steps = 1 .. Len(answer.trace)
    BY RecordedCalls DEF EvaluationInv, AnswerInv
  <2>2. \A i \in DOMAIN answer.steps : answer.steps[i] \in StepRecord
    BY StepFacts, RecordedCalls DEF EvaluationInv, AnswerInv, StepRecord
  <2>3. QED
    BY <2>1, <2>2
<1>2. QED
  BY <1>1, EvaluationInvariance, PTL

(* README.md:102 and :103, replay.py and compare.py: for any handlers, a   *)
(* replay finds a mismatch exactly where a comparison with the run it      *)
(* makes finds a changed result; only handlers change anything, and only   *)
(* a handler that returned changes a result.                               *)
THEOREM ReplaysAgree == EvaluationSpec => []ReplaysAgreeWithComparisons
<1>1. EvaluationInv => ReplaysAgreeWithComparisons
  <2> SUFFICES ASSUME EvaluationInv, Replayed, NEW i \in DOMAIN answer.steps
               PROVE  LET diffs == compare_runs(answer.trace, Rerecorded(answer.steps))
                      IN  /\ diffs[i].result_changed <=> ~answer.steps[i].result_match
                          /\ diffs[i].state # "same" => answer.steps[i].mode = "handler"
                          /\ ~answer.steps[i].result_match
                               => answer.steps[i].replayed_outcome = "success"
    BY DEF ReplaysAgreeWithComparisons
  <2> DEFINE n == Len(answer.trace)
             again == Rerecorded(answer.steps)
             step == answer.steps[i]
  <2>1. /\ n \in Nat /\ i \in 1 .. n /\ DOMAIN answer.trace = 1 .. n
        /\ answer.trace[i] \in ToolCall
        /\ DOMAIN answer.steps = 1 .. n
        /\ step \in Steps(answer.trace[i], answer.policy)
    BY RecordedCalls DEF EvaluationInv, AnswerInv
  <2>2. DOMAIN again = 1 .. n /\ Len(again) = n
    BY <2>1 DEF Rerecorded
  <2>3. again[i] = [step.call EXCEPT !.outcome = step.replayed_outcome,
                                     !.result = step.replayed_result]
    BY <2>1 DEF Rerecorded
  <2>4. compare_runs(answer.trace, again)[i] = Diff(answer.trace[i], again[i])
    BY <2>1, <2>2 DEF compare_runs, Longer, At
  <2>5. /\ Diff(answer.trace[i], again[i]).result_changed <=> ~step.result_match
        /\ Diff(answer.trace[i], again[i]).state # "same" => step.mode = "handler"
        /\ ~step.result_match => step.replayed_outcome = "success"
    <3>1. EngineTypeOK
      BY DEF EvaluationInv
    <3> DEFINE call == answer.trace[i]
               other == again[i]
    <3>2. /\ call \in ToolCall /\ step \in Steps(call, answer.policy)
          /\ other = [step.call EXCEPT !.outcome = step.replayed_outcome,
                                       !.result = step.replayed_result]
      BY <2>1, <2>3
    <3> HIDE DEF step, call, other
    <3>3. /\ Diff(call, other).result_changed <=> ~step.result_match
          /\ Diff(call, other).state # "same" => step.mode = "handler"
          /\ ~step.result_match => step.replayed_outcome = "success"
      BY <3>1, <3>2, RerecordedDiff
    <3>4. QED
      BY <3>3 DEF step, call, other
  <2>6. QED
    BY <2>4, <2>5
<1>2. QED
  BY <1>1, EvaluationInvariance, PTL

-----------------------------------------------------------------------------
(* Comparisons.                                                            *)

(* Python's == is symmetric, and so is having changed keys. *)
LEMMA EqualityIsSymmetric ==
  ASSUME NEW v, NEW w
  PROVE  /\ Equal(v, w) <=> Equal(w, v)
         /\ SameHash(v, w) <=> SameHash(w, v)
         /\ ChangedKeys(v, w) = ChangedKeys(w, v)
BY DEF Equal, SameHash, ChangedKeys

(* A position compared in the other direction is mirrored.                 *)
LEMMA DiffMirrored ==
  ASSUME NEW a \in ToolCall \cup {None}, NEW b \in ToolCall \cup {None},
         a # None \/ b # None
  PROVE  /\ Diff(b, a) = Mirrored(Diff(a, b))
         /\ Diff(b, a).state # "same" <=> Diff(a, b).state # "same"
         /\ Diff(b, a).error_changed = Diff(a, b).error_changed
         /\ Diff(b, a).outcome_changed = Diff(a, b).outcome_changed
         /\ Diff(a, b).state \in {"added", "removed", "same", "changed"}
         /\ Diff(a, b).state = "added" <=> a = None
         /\ Diff(a, b).state = "removed" <=> b = None
<1>1. CASE a = None
  BY <1>1 DEF Diff, Added, Removed, Mirrored
<1>2. CASE a # None /\ b = None
  BY <1>2 DEF Diff, Added, Removed, Mirrored
<1>3. CASE a # None /\ b # None
  <2>1. Matched(a, b) = Matched(b, a)
    <3>1. /\ Equal(a.arguments, b.arguments) <=> Equal(b.arguments, a.arguments)
          /\ SameHash(a.result, b.result) <=> SameHash(b.result, a.result)
          /\ ChangedKeys(a.arguments, b.arguments) = ChangedKeys(b.arguments, a.arguments)
          /\ ChangedKeys(a.result, b.result) = ChangedKeys(b.result, a.result)
      BY EqualityIsSymmetric
    <3>2. QED
      BY <3>1 DEF Matched
  <2>2. Matched(a, b).state \in {"same", "changed"}
    BY DEF Matched
  <2>3. Mirrored(Matched(a, b)) = Matched(a, b)
    BY <2>2 DEF Mirrored
  <2>4. QED
    BY <1>3, <2>1, <2>2, <2>3 DEF Diff
<1>4. QED
  BY <1>1, <1>2, <1>3

(* The positions of a comparison, and what is found at each.               *)
LEMMA ComparedPositions ==
  ASSUME NEW s \in TraceDocument, NEW t \in TraceDocument
  PROVE  /\ DOMAIN compare_runs(s, t) = 1 .. Longer(Len(s), Len(t))
         /\ Longer(Len(s), Len(t)) \in Nat
         /\ Longer(Len(s), Len(t)) = Longer(Len(t), Len(s))
         /\ \A i \in 1 .. Longer(Len(s), Len(t)) :
               /\ compare_runs(s, t)[i] = Diff(At(s, i), At(t, i))
               /\ At(s, i) \in ToolCall \cup {None} /\ At(t, i) \in ToolCall \cup {None}
               /\ At(s, i) # None \/ At(t, i) # None
               /\ At(s, i) = None <=> i > Len(s)
               /\ At(t, i) = None <=> i > Len(t)
<1>1. Len(s) \in Nat /\ Len(t) \in Nat
  BY RecordedCalls
<1>2. Longer(Len(s), Len(t)) \in Nat /\ Longer(Len(s), Len(t)) = Longer(Len(t), Len(s))
  BY <1>1 DEF Longer
<1>3. ASSUME NEW i \in 1 .. Longer(Len(s), Len(t))
      PROVE  /\ At(s, i) \in ToolCall \cup {None} /\ At(t, i) \in ToolCall \cup {None}
             /\ At(s, i) # None \/ At(t, i) # None
             /\ At(s, i) = None <=> i > Len(s)
             /\ At(t, i) = None <=> i > Len(t)
  <2>1. i \in Nat \ {0} /\ (i <= Len(s) \/ i <= Len(t))
    BY <1>1, <1>3 DEF Longer
  <2>2. QED
    BY <1>1, <2>1, Positions
<1>4. QED
  BY <1>2, <1>3 DEF compare_runs

(* How many positions lie beyond the m-th of n. *)
LEMMA Beyond ==
  ASSUME NEW m \in Nat, NEW n \in Nat
  PROVE  Cardinality(m + 1 .. n) = IF m < n THEN n - m ELSE 0
<1>1. m + 1 \in Int /\ n \in Int
  OBVIOUS
<1>2. Cardinality(m + 1 .. n) = IF m + 1 > n THEN 0 ELSE n - (m + 1) + 1
  BY <1>1, FS_Interval
<1>3. QED
  BY <1>2

(* Exactly the positions beyond the end of the first run are added.        *)
LEMMA AddedPositions ==
  ASSUME NEW s \in TraceDocument, NEW t \in TraceDocument
  PROVE  /\ added_tools(compare_runs(s, t)) = IF Len(s) < Len(t) THEN Len(t) - Len(s) ELSE 0
         /\ removed_tools(compare_runs(s, t)) = IF Len(t) < Len(s) THEN Len(s) - Len(t) ELSE 0
<1> DEFINE diffs == compare_runs(s, t)
<1>1. Len(s) \in Nat /\ Len(t) \in Nat
  BY RecordedCalls
<1>2. ASSUME NEW i \in 1 .. Longer(Len(s), Len(t))
      PROVE  /\ diffs[i].state = "added" <=> i > Len(s)
             /\ diffs[i].state = "removed" <=> i > Len(t)
  <2>1. /\ diffs[i] = Diff(At(s, i), At(t, i))
        /\ At(s, i) \in ToolCall \cup {None} /\ At(t, i) \in ToolCall \cup {None}
        /\ At(s, i) # None \/ At(t, i) # None
        /\ At(s, i) = None <=> i > Len(s)
        /\ At(t, i) = None <=> i > Len(t)
    BY ComparedPositions
  <2>2. QED
    BY <2>1, DiffMirrored
<1> HIDE DEF diffs
<1>8. DOMAIN diffs = 1 .. Longer(Len(s), Len(t))
  BY ComparedPositions DEF diffs
<1>3. {i \in DOMAIN diffs : diffs[i].state \in {"added"}} = Len(s) + 1 .. Len(t)
  BY <1>1, <1>2, <1>8 DEF Longer
<1>4. {i \in DOMAIN diffs : diffs[i].state \in {"removed"}} = Len(t) + 1 .. Len(s)
  BY <1>1, <1>2, <1>8 DEF Longer
<1>7. QED
  BY <1>1, <1>3, <1>4, Beyond DEF added_tools, removed_tools, Count, diffs

(* compare.py:85: however two runs differ, comparing them the other way    *)
(* round tells the same of every position, but for the arguments of those  *)
(* only one run has, and these are the difference of the runs' lengths.    *)
THEOREM ComparisonsAreMirrored == EvaluationSpec => []ComparisonsMirror
<1>1. EvaluationInv => ComparisonsMirror
  <2> SUFFICES ASSUME EvaluationInv, Compared PROVE ComparisonsMirror
    BY DEF ComparisonsMirror
  <2> DEFINE s == answer.run_a
             t == answer.run_b
             forth == compare_runs(s, t)
             back == compare_runs(t, s)
  <2>1. s \in TraceDocument /\ t \in TraceDocument /\ answer.tool_diffs = forth
    BY DEF EvaluationInv, AnswerInv
  <2>2. DOMAIN forth = DOMAIN back
    BY <2>1, ComparedPositions
  <2>3. ASSUME NEW i \in DOMAIN forth
        PROVE  /\ back[i] = Mirrored(forth[i])
               /\ back[i].state # "same" <=> forth[i].state # "same"
               /\ back[i].error_changed = forth[i].error_changed
               /\ back[i].outcome_changed = forth[i].outcome_changed
               /\ forth[i].state \in {"added", "removed", "same", "changed"}
               /\ back[i].state \in {"added", "removed", "same", "changed"}
    <3>1. /\ forth[i] = Diff(At(s, i), At(t, i)) /\ back[i] = Diff(At(t, i), At(s, i))
          /\ At(s, i) \in ToolCall \cup {None} /\ At(t, i) \in ToolCall \cup {None}
          /\ At(s, i) # None \/ At(t, i) # None
      BY <2>1, <2>3, ComparedPositions
    <3>2. QED
      BY <3>1, DiffMirrored
  <2>4. back = [i \in DOMAIN forth |-> Mirrored(forth[i])]
    BY <2>2, <2>3 DEF compare_runs
  <2>5. /\ {i \in DOMAIN back : back[i].state \in {"changed", "added", "removed"}}
             = {i \in DOMAIN forth : forth[i].state \in {"changed", "added", "removed"}}
        /\ {i \in DOMAIN back : back[i].outcome_changed}
             = {i \in DOMAIN forth : forth[i].outcome_changed}
        /\ {i \in DOMAIN back : back[i].error_changed}
             = {i \in DOMAIN forth : forth[i].error_changed}
    <3> HIDE DEF forth, back
    <3>1. QED
      BY <2>2, <2>3
  <2>6. /\ changed_tools(back) = changed_tools(forth)
        /\ outcome_changed_tools(back) = outcome_changed_tools(forth)
        /\ error_changed_tools(back) = error_changed_tools(forth)
    BY <2>5 DEF changed_tools, outcome_changed_tools, error_changed_tools, Count
  <2>7. /\ added_tools(forth) - removed_tools(forth) = Len(t) - Len(s)
        /\ 0 \in {added_tools(forth), removed_tools(forth)}
    <3>1. Len(s) \in Nat /\ Len(t) \in Nat
      BY <2>1, RecordedCalls
    <3>2. /\ added_tools(forth) = IF Len(s) < Len(t) THEN Len(t) - Len(s) ELSE 0
          /\ removed_tools(forth) = IF Len(t) < Len(s) THEN Len(s) - Len(t) ELSE 0
      BY <2>1, AddedPositions
    <3> HIDE DEF s, t, forth
    <3>3. QED
      BY <3>1, <3>2
  <2>8. QED
    BY <2>1, <2>4, <2>6, <2>7 DEF ComparisonsMirror
<1>2. QED
  BY <1>1, EvaluationInvariance, PTL

(* Two mappings are equal but for nulls exactly when they map every key to *)
(* the same value, a missing key being as good as a null one.              *)
LEMMA EqualKeyByKey ==
  ASSUME NEW v \in Mapping, NEW w \in Mapping
  PROVE  EqualButForNulls(v, w) <=> \A k \in Keys : ValueOf[Get(v, k)] = ValueOf[Get(w, k)]
<1> DEFINE NonNull(u) == [k \in {k \in DOMAIN u : u[k] # Null} |-> u[k]]
<1>1. ASSUME NEW u \in Mapping
      PROVE  /\ NonNull(u) \in Mapping
             /\ DOMAIN NonNull(u) = {k \in Keys : Get(u, k) # Null}
             /\ \A k \in DOMAIN NonNull(u) : NonNull(u)[k] = Get(u, k)
             /\ \A k \in Keys : Get(u, k) \in Scalars
  <2>1. PICK K \in SUBSET Keys : u \in [K -> Scalars]
    BY <1>1 DEF Mapping
  <2>2. DOMAIN u \subseteq Keys /\ \A k \in DOMAIN u : u[k] \in Scalars
    BY <2>1
  <2>3. NonNull(u) \in [{k \in DOMAIN u : u[k] # Null} -> Scalars]
    BY <2>2
  <2>4. NonNull(u) \in Mapping
    BY <2>2, <2>3 DEF Mapping
  <2>5. DOMAIN NonNull(u) = {k \in Keys : Get(u, k) # Null}
    BY <2>2 DEF Get
  <2>6. \A k \in DOMAIN NonNull(u) : NonNull(u)[k] = Get(u, k)
    BY DEF Get
  <2>7. \A k \in Keys : Get(u, k) \in Scalars
    BY <2>2, ScalarAssumption DEF Get
  <2>8. QED
    BY <2>4, <2>5, <2>6, <2>7
<1>2. EqualButForNulls(v, w) <=> Equal(NonNull(v), NonNull(w))
  BY DEF EqualButForNulls
<1> HIDE DEF NonNull
<1>3. NonNull(v) \notin Scalars
  BY <1>1, ScalarAssumption
<1>4. Equal(NonNull(v), NonNull(w))
        <=> /\ DOMAIN NonNull(v) = DOMAIN NonNull(w)
            /\ \A k \in DOMAIN NonNull(v) : ValueOf[NonNull(v)[k]] = ValueOf[NonNull(w)[k]]
  BY <1>1, <1>3 DEF Equal
<1>5. ASSUME NEW k \in Keys
      PROVE  /\ ValueOf[Get(v, k)] = ValueOf[Null] => Get(v, k) = Null
             /\ ValueOf[Get(w, k)] = ValueOf[Null] => Get(w, k) = Null
  BY <1>1, ScalarAssumption
<1>6. ASSUME Equal(NonNull(v), NonNull(w)), NEW k \in Keys
      PROVE  ValueOf[Get(v, k)] = ValueOf[Get(w, k)]
  <2>1. CASE k \in DOMAIN NonNull(v)
    <3>1. k \in DOMAIN NonNull(w) /\ ValueOf[NonNull(v)[k]] = ValueOf[NonNull(w)[k]]
      BY <1>4, <1>6, <2>1
    <3>2. NonNull(v)[k] = Get(v, k) /\ NonNull(w)[k] = Get(w, k)
      BY <1>1, <2>1, <3>1
    <3>3. QED
      BY <3>1, <3>2
  <2>2. CASE k \notin DOMAIN NonNull(v)
    <3>1. k \notin DOMAIN NonNull(w)
      BY <1>4, <1>6, <2>2
    <3>2. Get(v, k) = Null /\ Get(w, k) = Null
      BY <1>1, <2>2, <3>1
    <3>3. QED
      BY <3>2
  <2>3. QED
    BY <2>1, <2>2
<1>7. ASSUME \A k \in Keys : ValueOf[Get(v, k)] = ValueOf[Get(w, k)]
      PROVE  Equal(NonNull(v), NonNull(w))
  <2>1. \A k \in Keys : Get(v, k) # Null <=> Get(w, k) # Null
    BY <1>5, <1>7
  <2>2. DOMAIN NonNull(v) = DOMAIN NonNull(w)
    BY <1>1, <2>1
  <2>3. ASSUME NEW k \in DOMAIN NonNull(v)
        PROVE  ValueOf[NonNull(v)[k]] = ValueOf[NonNull(w)[k]]
    <3>1. k \in Keys /\ NonNull(v)[k] = Get(v, k)
      BY <1>1, <2>3
    <3>2. NonNull(w)[k] = Get(w, k)
      BY <1>1, <2>2, <2>3
    <3>3. QED
      BY <1>7, <3>1, <3>2
  <2>4. QED
    BY <1>4, <2>2, <2>3
<1>8. QED
  BY <1>2, <1>6, <1>7

(* What a patched mapping maps its keys to. *)
LEMMA PatchedKeys ==
  ASSUME NEW v \in Mapping, NEW w \in Mapping, NEW K
  PROVE  /\ Patched(v, w, K) \in Mapping
         /\ \A k \in Keys : Get(Patched(v, w, K), k) = IF k \in K THEN Get(w, k) ELSE Get(v, k)
<1>1. PICK V \in SUBSET Keys : v \in [V -> Scalars]
  BY DEF Mapping
<1>2. PICK W \in SUBSET Keys : w \in [W -> Scalars]
  BY DEF Mapping
<1>3. Patched(v, w, K) \in [(V \ K) \cup (W \cap K) -> Scalars]
  BY <1>1, <1>2 DEF Patched
<1>4. Patched(v, w, K) \in Mapping
  BY <1>3 DEF Mapping
<1>5. ASSUME NEW k \in Keys
      PROVE  Get(Patched(v, w, K), k) = IF k \in K THEN Get(w, k) ELSE Get(v, k)
  BY <1>1, <1>2 DEF Patched, Get
<1>6. QED
  BY <1>4, <1>5

(* _changed_keys: the keys two mappings differ in are those listed.        *)
LEMMA KeysDiffer ==
  ASSUME NEW v, NEW w
  PROVE  DifferIn(ChangedKeys(v, w), v, w)
<1> DEFINE K == ChangedKeys(v, w)
<1>1. CASE v \in Mapping /\ w \in Mapping
  <2>1. \A k \in Keys : k \in K <=> ValueOf[Get(v, k)] # ValueOf[Get(w, k)]
    BY <1>1 DEF ChangedKeys, Get
  <2>2. K \subseteq Keys
    BY <1>1 DEF ChangedKeys, Mapping
  <2> HIDE DEF K
  <2>3. EqualButForNulls(Patched(v, w, K), w)
    BY <1>1, <2>1, PatchedKeys, EqualKeyByKey
  <2>4. ASSUME NEW k \in K
        PROVE  ~EqualButForNulls(Patched(v, w, K \ {k}), w)
    <3>1. Patched(v, w, K \ {k}) \in Mapping /\ Get(Patched(v, w, K \ {k}), k) = Get(v, k)
      BY <1>1, <2>2, <2>4, PatchedKeys
    <3>2. ValueOf[Get(v, k)] # ValueOf[Get(w, k)] /\ k \in Keys
      BY <2>1, <2>2, <2>4
    <3>3. QED
      BY <1>1, <3>1, <3>2, EqualKeyByKey
  <2>5. QED
    BY <1>1, <2>3, <2>4 DEF DifferIn, K
<1>2. CASE ~(v \in Mapping /\ w \in Mapping)
  BY <1>2 DEF ChangedKeys, DifferIn
<1>3. QED
  BY <1>1, <1>2

(* Values that are equal, or have one text, list no key. *)
LEMMA EqualListNone ==
  ASSUME NEW v, NEW w
  PROVE  /\ Equal(v, w) => ChangedKeys(v, w) = {}
         /\ SameHash(v, w) => ChangedKeys(v, w) = {}
<1>1. CASE v \in Mapping /\ w \in Mapping
  <2>1. Equal(v, w) => \A k \in DOMAIN v \cup DOMAIN w : ValueOf[Get(v, k)] = ValueOf[Get(w, k)]
    BY <1>1, ScalarAssumption DEF Equal, Get
  <2>2. QED
    BY <1>1, <2>1 DEF ChangedKeys, SameHash
<1>2. CASE ~(v \in Mapping /\ w \in Mapping)
  BY <1>2 DEF ChangedKeys
<1>3. QED
  BY <1>1, <1>2

(* README.md:785: of any two runs, a position lists exactly the keys its   *)
(* arguments and results differ in, and lists none unless it changed.      *)
THEOREM ListedKeysAreChanged == EvaluationSpec => []ListedKeysChanged
<1>1. EvaluationInv => ListedKeysChanged
  <2> SUFFICES ASSUME EvaluationInv, Compared, NEW i \in DOMAIN answer.tool_diffs
               PROVE  LET d == answer.tool_diffs[i]
                          a == At(answer.run_a, i)
                          b == At(answer.run_b, i)
                      IN  /\ d.argument_keys_changed \cup d.result_keys_changed # {}
                               => d.state = "changed"
                          /\ d.result_keys_changed # {} => d.result_changed
                          /\ a # None /\ b # None =>
                               /\ DifferIn(d.argument_keys_changed, a.arguments, b.arguments)
                               /\ DifferIn(d.result_keys_changed, a.result, b.result)
    BY DEF ListedKeysChanged
  <2> DEFINE a == At(answer.run_a, i)
             b == At(answer.run_b, i)
             d == answer.tool_diffs[i]
  <2>1. /\ d = Diff(a, b)
        /\ a \in ToolCall \cup {None} /\ b \in ToolCall \cup {None} /\ (a # None \/ b # None)
    BY ComparedPositions DEF EvaluationInv, AnswerInv
  <2> SUFFICES /\ d.argument_keys_changed \cup d.result_keys_changed # {}
                    => d.state = "changed"
               /\ d.result_keys_changed # {} => d.result_changed
               /\ a # None /\ b # None =>
                    /\ DifferIn(d.argument_keys_changed, a.arguments, b.arguments)
                    /\ DifferIn(d.result_keys_changed, a.result, b.result)
    OBVIOUS
  <2> HIDE DEF a, b, d
  <2>2. CASE a = None \/ b = None
    <3>1. d = Added(b) \/ d = Removed(a)
      BY <2>1, <2>2 DEF Diff
    <3>2. d.argument_keys_changed = {} /\ d.result_keys_changed = {}
      BY <3>1 DEF Added, Removed
    <3>3. QED
      BY <2>2, <3>2
  <2>3. CASE a # None /\ b # None
    <3>1. d = Matched(a, b)
      BY <2>1, <2>3 DEF Diff
    <3>2. /\ d.argument_keys_changed = ChangedKeys(a.arguments, b.arguments)
          /\ d.result_keys_changed = ChangedKeys(a.result, b.result)
      BY <3>1 DEF Matched
    <3>3. ~Equal(a.arguments, b.arguments) \/ ~SameHash(a.result, b.result) => d.state = "changed"
      BY <3>1 DEF Matched
    <3>4. ~SameHash(a.result, b.result) => d.result_changed
      BY <3>1 DEF Matched
    <3>5. /\ d.argument_keys_changed # {} => ~Equal(a.arguments, b.arguments)
          /\ d.result_keys_changed # {} => ~SameHash(a.result, b.result)
      BY <3>2, EqualListNone
    <3>6. /\ DifferIn(d.argument_keys_changed, a.arguments, b.arguments)
          /\ DifferIn(d.result_keys_changed, a.result, b.result)
      BY <3>2, KeysDiffer
    <3>7. QED
      BY <3>3, <3>4, <3>5, <3>6
  <2>4. QED
    BY <2>2, <2>3
<1>2. QED
  BY <1>1, EvaluationInvariance, PTL

-----------------------------------------------------------------------------
(***************************************************************************)
(* Openings of one database by several processes.                          *)
(***************************************************************************)

OpeningTypeOK ==
  /\ tables \subseteq ToSet(Tables)
  /\ columns \subseteq ToSet(ExtraColumns)
  /\ stage \in [Processes -> Stages]
  /\ todo \in [Processes -> Seq(STRING)]
  /\ seen \in [Processes -> SUBSET ToSet(ExtraColumns)]
  /\ error \in [Processes -> {"", "database is locked"}]

(* What is missing from the schema is still to be done.                    *)
OpeningProgress(p) ==
  /\ stage[p] = "script" => /\ ToSet(Tables) \subseteq tables \cup ToSet(todo[p])
                            /\ ToSet(todo[p]) \subseteq ToSet(Tables)
  /\ stage[p] \in {"check", "alter", "open"} => tables = ToSet(Tables)
  /\ stage[p] = "alter" => /\ todo[p] # << >>
                           /\ ToSet(ExtraColumns) \subseteq columns \cup ToSet(todo[p])
                           /\ ToSet(todo[p]) \subseteq ToSet(ExtraColumns)
                           /\ seen[p] \subseteq columns
  /\ stage[p] = "open" => columns = ToSet(ExtraColumns)

OpeningInv == OpeningTypeOK /\ \A p \in Processes : OpeningProgress(p)

-----------------------------------------------------------------------------
(* A sequence that is not empty holds its head and its tail. *)
LEMMA HeadAndTail ==
  ASSUME NEW s \in Seq(STRING), s # << >>
  PROVE  /\ ToSet(s) = {Head(s)} \cup ToSet(Tail(s))
         /\ Tail(s) \in Seq(STRING)
<1>1. \A i \in DOMAIN s : i = 1 \/ (i - 1 \in DOMAIN Tail(s) /\ Tail(s)[i - 1] = s[i])
  OBVIOUS
<1>2. \A i \in DOMAIN Tail(s) : i + 1 \in DOMAIN s /\ Tail(s)[i] = s[i + 1]
  OBVIOUS
<1>3. 1 \in DOMAIN s /\ Head(s) = s[1]
  OBVIOUS
<1>4. ToSet(s) = {Head(s)} \cup ToSet(Tail(s))
  BY <1>1, <1>2, <1>3 DEF ToSet
<1>5. Tail(s) \in Seq(STRING)
  OBVIOUS
<1>6. QED
  BY <1>4, <1>5

(* Nothing is left to do in an empty sequence. *)
LEMMA EmptySet == ToSet(<< >>) = {} /\ << >> \in Seq(STRING)
BY DEF ToSet

(* What a step that leaves the schema alone needs of OthersProgress.       *)
LEMMA SchemaStays ==
  ASSUME OpeningInv, UNCHANGED schema
  PROVE  /\ tables \subseteq tables' /\ tables' \subseteq ToSet(Tables)
         /\ columns \subseteq columns' /\ columns' \subseteq ToSet(ExtraColumns)
         /\ tables' = tables /\ columns' = columns
BY DEF schema, OpeningInv, OpeningTypeOK

LEMMA Sequences == Tables \in Seq(STRING) /\ ExtraColumns \in Seq(STRING)
BY MigrationAssumption

(* A process moves on: the others keep their stage, and their progress     *)
(* holds as long as the schema only grows within its bounds.               *)
LEMMA OthersProgress ==
  ASSUME OpeningInv, NEW p \in Processes, NEW where \in Stages,
         NEW names \in Seq(STRING), NEW found \in SUBSET ToSet(ExtraColumns),
         Enter(p, where, names, found),
         tables \subseteq tables', tables' \subseteq ToSet(Tables),
         columns \subseteq columns', columns' \subseteq ToSet(ExtraColumns),
         error' \in [Processes -> {"", "database is locked"}]
  PROVE  /\ OpeningTypeOK'
         /\ stage'[p] = where /\ todo'[p] = names /\ seen'[p] = found
         /\ \A q \in Processes \ {p} : OpeningProgress(q)'
<1>1. /\ stage' \in [Processes -> Stages] /\ todo' \in [Processes -> Seq(STRING)]
      /\ seen' \in [Processes -> SUBSET ToSet(ExtraColumns)]
      /\ stage'[p] = where /\ todo'[p] = names /\ seen'[p] = found
  BY DEF OpeningInv, OpeningTypeOK, Enter
<1>2. ASSUME NEW q \in Processes \ {p}  PROVE OpeningProgress(q)'
  <2>1. stage'[q] = stage[q] /\ todo'[q] = todo[q] /\ seen'[q] = seen[q]
    BY DEF OpeningInv, OpeningTypeOK, Enter
  <2>2. OpeningProgress(q)
    BY DEF OpeningInv
  <2>3. QED
    BY <2>1, <2>2 DEF OpeningProgress
<1>3. OpeningTypeOK'
  BY <1>1 DEF OpeningTypeOK
<1>4. QED
  BY <1>1, <1>2, <1>3

(* Each step of Migration keeps the invariant.                             *)
LEMMA OpeningInit == MigrationInit => OpeningInv
<1>. SUFFICES ASSUME MigrationInit  PROVE OpeningInv
  OBVIOUS
<1>1. tables \subseteq ToSet(Tables) /\ columns \subseteq ToSet(ExtraColumns)
  BY MigrationAssumption DEF MigrationInit
<1>2. OpeningTypeOK
  BY <1>1, EmptySet DEF MigrationInit, OpeningTypeOK, Stages
<1>3. ASSUME NEW p \in Processes  PROVE OpeningProgress(p)
  BY DEF MigrationInit, OpeningProgress
<1>4. QED
  BY <1>2, <1>3 DEF OpeningInv

LEMMA LaunchKeeps ==
  ASSUME OpeningInv, NEW p \in Processes, Launch(p)
  PROVE  OpeningInv'
<1>1. /\ Enter(p, "script", Tables, {}) /\ UNCHANGED schema /\ "script" \in Stages
      /\ error' \in [Processes -> {"", "database is locked"}]
  BY DEF Launch, Stages, OpeningInv, OpeningTypeOK
<1>2. Tables \in Seq(STRING) /\ {} \in SUBSET ToSet(ExtraColumns)
  BY Sequences
<1>3. /\ OpeningTypeOK' /\ \A q \in Processes \ {p} : OpeningProgress(q)'
      /\ stage'[p] = "script" /\ todo'[p] = Tables
  BY <1>1, <1>2, SchemaStays, OthersProgress
<1>4. OpeningProgress(p)'
  BY <1>3 DEF OpeningProgress
<1>5. QED
  BY <1>3, <1>4 DEF OpeningInv

LEMMA CreateTableKeeps ==
  ASSUME OpeningInv, NEW p \in Processes, CreateTable(p)
  PROVE  OpeningInv'
<1>1. /\ todo[p] \in Seq(STRING) /\ todo[p] # << >>
      /\ Enter(p, "script", Tail(todo[p]), {}) /\ UNCHANGED error
      /\ OpeningProgress(p) /\ stage[p] = "script"
  BY DEF CreateTable, OpeningInv, OpeningTypeOK
<1>2. /\ ToSet(todo[p]) = {Head(todo[p])} \cup ToSet(Tail(todo[p]))
      /\ Tail(todo[p]) \in Seq(STRING)
  BY <1>1, HeadAndTail
<1>3. /\ tables' = tables \cup {Head(todo[p])} /\ tables' \subseteq ToSet(Tables)
      /\ columns \subseteq columns' /\ columns' \subseteq ToSet(ExtraColumns)
  BY <1>1, <1>2 DEF CreateTable, OpeningInv, OpeningTypeOK, OpeningProgress
<1>4. /\ "script" \in Stages /\ {} \in SUBSET ToSet(ExtraColumns) /\ tables \subseteq tables'
      /\ error' \in [Processes -> {"", "database is locked"}]
  BY <1>1, <1>3 DEF Stages, OpeningInv, OpeningTypeOK
<1>5. /\ OpeningTypeOK' /\ \A q \in Processes \ {p} : OpeningProgress(q)'
      /\ stage'[p] = "script" /\ todo'[p] = Tail(todo[p])
  BY <1>1, <1>2, <1>3, <1>4, OthersProgress
<1>6. OpeningProgress(p)'
  BY <1>1, <1>2, <1>3, <1>5 DEF OpeningProgress
<1>7. QED
  BY <1>5, <1>6 DEF OpeningInv

LEMMA ScriptDoneKeeps ==
  ASSUME OpeningInv, NEW p \in Processes, ScriptDone(p)
  PROVE  OpeningInv'
<1>1. /\ Enter(p, "check", << >>, {}) /\ UNCHANGED <<schema, error>>
      /\ OpeningProgress(p) /\ stage[p] = "script" /\ todo[p] = << >>
  BY DEF ScriptDone, OpeningInv
<1>2. tables = ToSet(Tables)
  BY <1>1, EmptySet DEF OpeningProgress, OpeningInv, OpeningTypeOK
<1>3. /\ OpeningTypeOK' /\ \A q \in Processes \ {p} : OpeningProgress(q)'
      /\ stage'[p] = "check"
  BY <1>1, OthersProgress, SchemaStays, EmptySet DEF Stages, OpeningInv, OpeningTypeOK
<1>4. OpeningProgress(p)'
  BY <1>1, <1>2, <1>3 DEF OpeningProgress, schema
<1>5. QED
  BY <1>3, <1>4 DEF OpeningInv

LEMMA TableInfoKeeps ==
  ASSUME OpeningInv, NEW p \in Processes, TableInfo(p)
  PROVE  OpeningInv'
<1>1. /\ Looked(p, ToSet(ExtraColumns) \subseteq columns) /\ UNCHANGED <<schema, error>>
      /\ tables = ToSet(Tables) /\ columns \subseteq ToSet(ExtraColumns)
  BY DEF TableInfo, OpeningInv, OpeningProgress, OpeningTypeOK
<1>2. CASE ToSet(ExtraColumns) \subseteq columns
  <2>1. Enter(p, "open", << >>, {})
    BY <1>1, <1>2 DEF Looked
  <2>2. /\ OpeningTypeOK' /\ \A q \in Processes \ {p} : OpeningProgress(q)'
        /\ stage'[p] = "open"
    BY <1>1, <2>1, OthersProgress, EmptySet DEF schema, Stages, OpeningInv, OpeningTypeOK
  <2>3. OpeningProgress(p)'
    BY <1>1, <1>2, <2>2 DEF OpeningProgress, schema
  <2>4. QED
    BY <2>2, <2>3 DEF OpeningInv
<1>3. CASE ~(ToSet(ExtraColumns) \subseteq columns)
  <2>1. Enter(p, "alter", ExtraColumns, columns)
    BY <1>1, <1>3 DEF Looked
  <2>2. /\ ExtraColumns \in Seq(STRING) /\ columns \in SUBSET ToSet(ExtraColumns)
        /\ "alter" \in Stages /\ UNCHANGED schema
        /\ error' \in [Processes -> {"", "database is locked"}]
    BY <1>1, Sequences DEF Stages, OpeningInv, OpeningTypeOK
  <2>3. /\ OpeningTypeOK' /\ \A q \in Processes \ {p} : OpeningProgress(q)'
        /\ stage'[p] = "alter" /\ todo'[p] = ExtraColumns /\ seen'[p] = columns
    BY <2>1, <2>2, SchemaStays, OthersProgress
  <2>4. ExtraColumns # << >>
    BY <1>3, EmptySet
  <2>5. OpeningProgress(p)'
    BY <1>1, <2>3, <2>4 DEF OpeningProgress, schema
  <2>6. QED
    BY <2>3, <2>5 DEF OpeningInv
<1>4. QED
  BY <1>2, <1>3

(* The three ways to be done with a column: it is there afterwards.        *)
LEMMA AlteredKeeps ==
  ASSUME OpeningInv, NEW p \in Processes, stage[p] = "alter", Altered(p),
         UNCHANGED <<tables, error>>,
         columns \subseteq columns', columns' \subseteq ToSet(ExtraColumns),
         Head(todo[p]) \in columns'
  PROVE  OpeningInv'
<1>1. /\ todo[p] \in Seq(STRING) /\ todo[p] # << >> /\ seen[p] \subseteq columns
      /\ tables = ToSet(Tables) /\ seen[p] \in SUBSET ToSet(ExtraColumns)
      /\ ToSet(ExtraColumns) \subseteq columns \cup ToSet(todo[p])
      /\ ToSet(todo[p]) \subseteq ToSet(ExtraColumns)
  BY DEF OpeningInv, OpeningTypeOK, OpeningProgress
<1>2. /\ ToSet(todo[p]) = {Head(todo[p])} \cup ToSet(Tail(todo[p]))
      /\ Tail(todo[p]) \in Seq(STRING)
  BY <1>1, HeadAndTail
<1>3. CASE Tail(todo[p]) = << >>
  <2>1. Enter(p, "open", << >>, {})
    BY <1>3 DEF Altered
  <2>2. /\ OpeningTypeOK' /\ \A q \in Processes \ {p} : OpeningProgress(q)'
        /\ stage'[p] = "open"
    BY <1>1, <2>1, OthersProgress, EmptySet DEF Stages, OpeningInv, OpeningTypeOK
  <2>3. OpeningProgress(p)'
    BY <1>1, <1>2, <1>3, <2>2, EmptySet DEF OpeningProgress
  <2>4. QED
    BY <2>2, <2>3 DEF OpeningInv
<1>4. CASE Tail(todo[p]) # << >>
  <2>1. Enter(p, "alter", Tail(todo[p]), seen[p])
    BY <1>4 DEF Altered
  <2>2. /\ OpeningTypeOK' /\ \A q \in Processes \ {p} : OpeningProgress(q)'
        /\ stage'[p] = "alter" /\ todo'[p] = Tail(todo[p]) /\ seen'[p] = seen[p]
    BY <1>1, <1>2, <2>1, OthersProgress DEF Stages, OpeningInv, OpeningTypeOK
  <2>3. OpeningProgress(p)'
    BY <1>1, <1>2, <1>4, <2>2 DEF OpeningProgress
  <2>4. QED
    BY <2>2, <2>3 DEF OpeningInv
<1>5. QED
  BY <1>3, <1>4

(* A process that ends, with an error perhaps. *)
LEMMA CloseKeeps ==
  ASSUME OpeningInv, NEW p \in Processes, Enter(p, "closed", << >>, {}),
         UNCHANGED schema, error' \in [Processes -> {"", "database is locked"}]
  PROVE  OpeningInv'
<1>1. /\ OpeningTypeOK' /\ \A q \in Processes \ {p} : OpeningProgress(q)'
      /\ stage'[p] = "closed"
  BY OthersProgress, EmptySet DEF schema, Stages, OpeningInv, OpeningTypeOK
<1>2. QED
  BY <1>1 DEF OpeningProgress, OpeningInv

LEMMA OpeningStepKeeps ==
  ASSUME OpeningInv, [OpeningNext]_migrationVars
  PROVE  OpeningInv'
<1>1. CASE UNCHANGED migrationVars
  BY <1>1 DEF migrationVars, OpeningInv, OpeningTypeOK, OpeningProgress
<1>2. ASSUME NEW p \in Processes, Launch(p)  PROVE OpeningInv'
  BY <1>2, LaunchKeeps
<1>3. ASSUME NEW p \in Processes, CreateTable(p)  PROVE OpeningInv'
  BY <1>3, CreateTableKeeps
<1>4. ASSUME NEW p \in Processes, ScriptDone(p)  PROVE OpeningInv'
  BY <1>4, ScriptDoneKeeps
<1>5. ASSUME NEW p \in Processes, TableInfo(p)  PROVE OpeningInv'
  BY <1>5, TableInfoKeeps
<1>6. ASSUME NEW p \in Processes, HasColumn(p) \/ AddColumn(p) \/ DuplicateColumn(p)
      PROVE OpeningInv'
  <2>1. /\ OpeningProgress(p) /\ stage[p] = "alter" /\ todo[p] \in Seq(STRING)
        /\ Altered(p) /\ UNCHANGED <<tables, error>>
    BY <1>6 DEF HasColumn, AddColumn, DuplicateColumn, schema, OpeningInv, OpeningTypeOK
  <2>2. Head(todo[p]) \in ToSet(ExtraColumns)
    BY <2>1, HeadAndTail DEF OpeningProgress
  <2>3. /\ columns \subseteq columns' /\ columns' \subseteq ToSet(ExtraColumns)
        /\ Head(todo[p]) \in columns'
    BY <1>6, <2>1, <2>2
    DEF HasColumn, AddColumn, DuplicateColumn, Column, schema, OpeningProgress,
        OpeningInv, OpeningTypeOK
  <2>4. QED
    BY <2>1, <2>3, AlteredKeeps
<1>7. ASSUME NEW p \in Processes, OpeningLocked(p) \/ Close(p)  PROVE OpeningInv'
  BY <1>7, CloseKeeps DEF OpeningLocked, Fail, Close, OpeningInv, OpeningTypeOK
<1>8. QED
  BY <1>1, <1>2, <1>3, <1>4, <1>5, <1>6, <1>7 DEF OpeningNext, OpeningStep

-----------------------------------------------------------------------------
(* storage.py:167: whoever else migrates, is killed or locked out, the     *)
(* library a process has open is complete, and only a lock ends an opening.*)
THEOREM OpeningsAreSafe == Opening => []MigrationsTolerateEachOther
<1>1. OpeningInv => MigrationsTolerateEachOther
  BY DEF OpeningInv, OpeningTypeOK, OpeningProgress, MigrationsTolerateEachOther, Complete
<1>2. Opening => []OpeningInv
  BY OpeningInit, OpeningStepKeeps, PTL DEF Opening
<1>3. QED
  BY <1>1, <1>2, PTL

(* The exchange implements Migration: its processes open the library by    *)
(* the steps of Migration, and nothing else they do changes the schema.    *)
THEOREM ExchangeImplementsMigration == Spec => Opening
<1>1. Init => MigrationInit
  BY DEF Init
<1>2. [Next]_exchangeVars => [OpeningNext]_migrationVars
  <2>1. ASSUME NEW p \in Processes, Open(p)  PROVE OpeningNext
    BY <2>1 DEF Open, OpeningNext
  <2>2. Command \in Processes
    BY ExchangeAssumption
  <2>3. ASSUME NEW p \in Processes, NEW state, Ends(p, state)
        PROVE [OpeningNext]_migrationVars
    BY <2>3 DEF Ends, OpeningNext
  <2>4. ASSUME NEW p \in Processes,
               \/ IngestNext(p) \/ IngestLocked(p) \/ MakeSummary(p) \/ SummaryFails(p)
               \/ Report(p) \/ Killed(p)
        PROVE [OpeningNext]_migrationVars
    BY <2>3, <2>4
    DEF IngestNext, IngestLocked, MakeSummary, SummaryFails, Report, Killed, OpeningNext
  <2>5. ASSUME \/ \E format \in Formats : StartExport(format)
               \/ GetTrace \/ WriteExport
               \/ \E name \in FileNames : StartImport(name)
               \/ \E payload \in Payloads : Post(payload)
        PROVE UNCHANGED migrationVars
    BY <2>5 DEF StartExport, GetTrace, WriteExport, StartImport, Post, Begins
  <2>6. ASSUME RunNotFound  PROVE [OpeningNext]_migrationVars
    BY <2>2, <2>3, <2>6 DEF RunNotFound
  <2>7. ASSUME \/ \E d \in Documents : Record(d)
               \/ \E r \in RunIds : Prune(r)
               \/ Rest \/ UNCHANGED exchangeVars
        PROVE UNCHANGED migrationVars
    BY <2>7 DEF Record, Prune, Rest, exchangeVars
  <2>8. QED
    BY <2>1, <2>4, <2>5, <2>6, <2>7 DEF Next
<1>3. QED
  BY <1>1, <1>2, PTL DEF Spec, Opening

(* The same of the server and the commands that exchange runs. *)
THEOREM MigrationsAreSafe == Spec => []MigrationsTolerateEachOther
BY OpeningsAreSafe, ExchangeImplementsMigration, PTL

-----------------------------------------------------------------------------
(***************************************************************************)
(* Ranks in a strict total order.                                          *)
(***************************************************************************)

StrictOrder(S, lt) ==
  /\ \A x \in S : <<x, x>> \notin lt
  /\ \A x, y \in S : x # y => <<x, y>> \in lt \/ <<y, x>> \in lt
  /\ \A x, y, z \in S : <<x, y>> \in lt /\ <<y, z>> \in lt => <<x, z>> \in lt

Below(S, lt, x) == {y \in S : <<y, x>> \in lt}

Rank(S, lt, x) == Cardinality(Below(S, lt, x)) + 1

(* The elements of a finite set have the ranks 1, 2, ... up to its size,   *)
(* each exactly one.                                                       *)
LEMMA Ranks ==
  ASSUME NEW S, IsFiniteSet(S), NEW lt, StrictOrder(S, lt)
  PROVE  /\ Cardinality(S) \in Nat
         /\ \A x \in S : Rank(S, lt, x) \in 1 .. Cardinality(S)
         /\ \A x, y \in S : Rank(S, lt, x) = Rank(S, lt, y) => x = y
         /\ \A i \in 1 .. Cardinality(S) : \E x \in S : Rank(S, lt, x) = i
<1> DEFINE n == Cardinality(S)
<1>1. n \in Nat
  BY FS_CardinalityType
<1>2. \A T \in SUBSET S : IsFiniteSet(T) /\ Cardinality(T) \in Nat
  BY FS_Subset, FS_CardinalityType
<1>3. \A x \in S : /\ Below(S, lt, x) \subseteq S /\ x \notin Below(S, lt, x)
                   /\ IsFiniteSet(Below(S, lt, x)) /\ Cardinality(Below(S, lt, x)) \in Nat
  BY <1>2 DEF Below, StrictOrder
<1>4. ASSUME NEW x \in S  PROVE Rank(S, lt, x) \in 1 .. n
  <2>1. Cardinality(Below(S, lt, x)) < n
    BY <1>1, <1>3, FS_Subset
  <2>2. QED
    BY <2>1, <1>1, <1>3 DEF Rank
<1>5. ASSUME NEW x \in S, NEW y \in S, <<x, y>> \in lt  PROVE Rank(S, lt, x) < Rank(S, lt, y)
  <2>1. /\ Below(S, lt, x) \subseteq Below(S, lt, y)
        /\ x \in Below(S, lt, y) /\ x \notin Below(S, lt, x)
    BY <1>5 DEF Below, StrictOrder
  <2>2. Cardinality(Below(S, lt, x)) < Cardinality(Below(S, lt, y))
    BY <2>1, <1>3, FS_Subset
  <2>3. QED
    BY <2>2, <1>3 DEF Rank
<1>6. ASSUME NEW x \in S, NEW y \in S, Rank(S, lt, x) = Rank(S, lt, y)  PROVE x = y
  <2>1. Rank(S, lt, x) \in Int /\ Rank(S, lt, y) \in Int
    BY <1>4
  <2>2. <<x, y>> \notin lt
    BY <2>1, <1>5, <1>6
  <2>3. <<y, x>> \notin lt
    BY <2>1, <1>5, <1>6
  <2>4. QED
    BY <2>2, <2>3 DEF StrictOrder
<1>7. ASSUME NEW i \in 1 .. n  PROVE \E x \in S : Rank(S, lt, x) = i
  <2> DEFINE f == [x \in S |-> Rank(S, lt, x)]
  <2>1. IsFiniteSet(1 .. n) /\ Cardinality(1 .. n) = n
    BY <1>1, FS_Interval
  <2>2. f \in Injection(S, 1 .. n)
    BY <1>4, <1>6 DEF Injection, IsInjective
  <2> HIDE DEF f
  <2>3. f \in Surjection(S, 1 .. n)
    BY <2>1, <2>2, FS_Injection
  <2>4. QED
    BY <2>3 DEF Surjection, f
<1>8. QED
  BY <1>1, <1>4, <1>6, <1>7

(* One of them comes before all others. *)
LEMMA LeastInOrder ==
  ASSUME NEW S, IsFiniteSet(S), S # {}, NEW lt, StrictOrder(S, lt)
  PROVE  \E x \in S : \A y \in S : x = y \/ <<x, y>> \in lt
<1>1. Cardinality(S) \in Nat /\ Cardinality(S) # 0
  BY FS_CardinalityType, FS_EmptySet
<1>2. PICK x \in S : Rank(S, lt, x) = 1
  BY <1>1, Ranks
<1>3. IsFiniteSet(Below(S, lt, x)) /\ Cardinality(Below(S, lt, x)) \in Nat
  BY FS_Subset, FS_CardinalityType DEF Below
<1>4. Below(S, lt, x) = {}
  BY <1>2, <1>3, FS_EmptySet DEF Rank
<1>5. QED
  BY <1>4 DEF Below, StrictOrder

(* A finite set of numbers has a least and a greatest one.                 *)
LEMMA LeastNumber ==
  ASSUME NEW S \in SUBSET Int, IsFiniteSet(S), S # {}
  PROVE  /\ \E x \in S : \A y \in S : x <= y
         /\ \E x \in S : \A y \in S : y <= x
<1>1. \E x \in S : \A y \in S : x <= y
  <2> DEFINE lt == {p \in S \X S : p[1] < p[2]}
  <2>1. \A x, y \in S : <<x, y>> \in lt <=> x < y
    OBVIOUS
  <2> HIDE DEF lt
  <2>2. StrictOrder(S, lt)
    BY <2>1 DEF StrictOrder
  <2>3. PICK x \in S : \A y \in S : x = y \/ <<x, y>> \in lt
    BY <2>2, LeastInOrder
  <2>4. \A y \in S : x = y \/ x < y
    BY <2>1, <2>3
  <2>5. QED
    BY <2>4
<1>2. \E x \in S : \A y \in S : y <= x
  <2> DEFINE lt == {p \in S \X S : p[2] < p[1]}
  <2>1. \A x, y \in S : <<x, y>> \in lt <=> y < x
    OBVIOUS
  <2> HIDE DEF lt
  <2>2. StrictOrder(S, lt)
    BY <2>1 DEF StrictOrder
  <2>3. PICK x \in S : \A y \in S : x = y \/ <<x, y>> \in lt
    BY <2>2, LeastInOrder
  <2>4. \A y \in S : x = y \/ y < x
    BY <2>1, <2>3
  <2>5. QED
    BY <2>4
<1>3. QED
  BY <1>1, <1>2

(* min(starts) and max(ends) are among the times they are taken of.        *)
LEMMA EarliestAndLatest ==
  ASSUME NEW T \in SUBSET Timestamp, IsFiniteSet(T), T # {}
  PROVE  /\ Earliest(T) \in T /\ \A t \in T : Earliest(T).at <= t.at
         /\ Latest(T) \in T /\ \A t \in T : t.at <= Latest(T).at
<1> DEFINE S == {t.at : t \in T}
           f == [t \in T |-> t.at]
<1>1. S \in SUBSET Int /\ S # {}
  BY DEF Timestamp
<1>2. f \in Surjection(T, S)
  BY DEF Surjection
<1> HIDE DEF f
<1>3. IsFiniteSet(S)
  BY <1>2, FS_Surjection
<1>4. /\ \E t \in T : \A u \in T : t.at <= u.at
      /\ \E t \in T : \A u \in T : u.at <= t.at
  <2>1. PICK least \in S : \A x \in S : least <= x
    BY <1>1, <1>3, LeastNumber
  <2>2. PICK greatest \in S : \A x \in S : x <= greatest
    BY <1>1, <1>3, LeastNumber
  <2>3. QED
    BY <2>1, <2>2
<1>5. QED
  BY <1>4 DEF Earliest, Latest

(***************************************************************************)
(* The order of spans.                                                     *)
(***************************************************************************)

SpansOK(S) ==
  /\ IsFiniteSet(S)
  /\ \A s \in S : ValidSpan(s)
  /\ \A s, u \in S : s.span_id = u.span_id => s = u

Unnumbered(s) == IF s.sequence = None THEN 1 ELSE 0
Number(s) == IF s.sequence = None THEN 0 ELSE s.sequence

(* The order of ordered_spans, column by column.                           *)
LEMMA OrderByColumns ==
  ASSUME NEW s, NEW u
  PROVE  OrderedBefore(s, u) <=>
           \/ Unnumbered(s) < Unnumbered(u)
           \/ Unnumbered(s) = Unnumbered(u) /\ Number(s) < Number(u)
           \/ /\ Unnumbered(s) = Unnumbered(u) /\ Number(s) = Number(u)
              /\ s.start_time.at < u.start_time.at
           \/ /\ Unnumbered(s) = Unnumbered(u) /\ Number(s) = Number(u)
              /\ s.start_time.at = u.start_time.at
              /\ IdOrder[s.span_id] < IdOrder[u.span_id]
<1> DEFINE Agree(i) == \A j \in 1 .. i - 1 : OrderKey(s)[j] = OrderKey(u)[j]
<1>1. /\ OrderKey(s)[1] = Unnumbered(s) /\ OrderKey(s)[2] = Number(s)
      /\ OrderKey(s)[3] = s.start_time.at /\ OrderKey(s)[4] = IdOrder[s.span_id]
      /\ OrderKey(u)[1] = Unnumbered(u) /\ OrderKey(u)[2] = Number(u)
      /\ OrderKey(u)[3] = u.start_time.at /\ OrderKey(u)[4] = IdOrder[u.span_id]
  BY DEF OrderKey, Unnumbered, Number
<1>2. /\ 1 .. 4 = {1, 2, 3, 4} /\ 1 .. 1 - 1 = {} /\ 1 .. 2 - 1 = {1}
      /\ 1 .. 3 - 1 = {1, 2} /\ 1 .. 4 - 1 = {1, 2, 3}
  OBVIOUS
<1>3. /\ Agree(1)
      /\ Agree(2) <=> OrderKey(s)[1] = OrderKey(u)[1]
      /\ Agree(3) <=> OrderKey(s)[1] = OrderKey(u)[1] /\ OrderKey(s)[2] = OrderKey(u)[2]
      /\ Agree(4) <=> /\ OrderKey(s)[1] = OrderKey(u)[1] /\ OrderKey(s)[2] = OrderKey(u)[2]
                      /\ OrderKey(s)[3] = OrderKey(u)[3]
  BY <1>2
<1>4. OrderedBefore(s, u) <=>
        \E i \in {1, 2, 3, 4} : OrderKey(s)[i] < OrderKey(u)[i] /\ Agree(i)
  BY <1>2 DEF OrderedBefore
<1> HIDE DEF Agree
<1>5. QED
  BY <1>1, <1>3, <1>4

(* The columns are numbers.                                                *)
LEMMA ColumnTypes ==
  ASSUME NEW s, ValidSpan(s)
  PROVE  /\ Unnumbered(s) \in Nat /\ Number(s) \in Nat /\ s.start_time.at \in Int
         /\ IdOrder[s.span_id] \in Nat
BY OtlpAssumption DEF ValidSpan, Unnumbered, Number, Timestamp

Order(S) == {p \in S \X S : OrderedBefore(p[1], p[2])}

(* Span IDs break every tie. *)
LEMMA SpansAreOrdered ==
  ASSUME NEW S, SpansOK(S)
  PROVE  /\ StrictOrder(S, Order(S))
         /\ \A s \in S : Position(S, s) = Rank(S, Order(S), s)
<1>1. \A s, u \in S : <<s, u>> \in Order(S) <=> OrderedBefore(s, u)
  BY DEF Order
<1>2. \A s \in S : /\ Unnumbered(s) \in Nat /\ Number(s) \in Nat /\ s.start_time.at \in Int
                   /\ IdOrder[s.span_id] \in Nat
  BY ColumnTypes DEF SpansOK
<1>3. \A s, u \in S : s # u => IdOrder[s.span_id] # IdOrder[u.span_id]
  BY OtlpAssumption DEF SpansOK, ValidSpan, IsInjective
<1>4. \A s \in S : ~OrderedBefore(s, s)
  BY <1>2, OrderByColumns
<1>5. \A s, u \in S : s # u => OrderedBefore(s, u) \/ OrderedBefore(u, s)
  BY <1>2, <1>3, OrderByColumns
<1>6. \A s, u, v \in S : OrderedBefore(s, u) /\ OrderedBefore(u, v) => OrderedBefore(s, v)
  BY <1>2, OrderByColumns
<1>7. StrictOrder(S, Order(S))
  BY <1>1, <1>4, <1>5, <1>6 DEF StrictOrder
<1>8. ASSUME NEW s \in S  PROVE Position(S, s) = Rank(S, Order(S), s)
  <2>1. {u \in S : OrderedBefore(u, s)} = Below(S, Order(S), s)
    BY <1>1 DEF Below
  <2>2. QED
    BY <2>1 DEF Position, Rank
<1>9. QED
  BY <1>7, <1>8

(* sorted() lists every span at its position.                              *)
LEMMA SortedByPosition ==
  ASSUME NEW S, SpansOK(S)
  PROVE  /\ Cardinality(S) \in Nat
         /\ Len(Sorted(S)) = Cardinality(S) /\ DOMAIN Sorted(S) = 1 .. Cardinality(S)
         /\ \A i \in 1 .. Cardinality(S) :
               Sorted(S)[i] \in S /\ Position(S, Sorted(S)[i]) = i
         /\ \A s \in S : /\ Position(S, s) \in 1 .. Cardinality(S)
                         /\ Sorted(S)[Position(S, s)] = s
<1> DEFINE n == Cardinality(S)
<1>1. /\ n \in Nat
      /\ \A s \in S : Position(S, s) \in 1 .. n
      /\ \A s, u \in S : Position(S, s) = Position(S, u) => s = u
      /\ \A i \in 1 .. n : \E s \in S : Position(S, s) = i
  BY SpansAreOrdered, Ranks DEF SpansOK
<1>2. \A i \in 1 .. n : Sorted(S)[i] \in S /\ Position(S, Sorted(S)[i]) = i
  BY <1>1 DEF Sorted
<1>3. DOMAIN Sorted(S) = 1 .. n /\ Len(Sorted(S)) = n
  BY <1>1 DEF Sorted
<1>4. QED
  BY <1>1, <1>2, <1>3

(* Spans that correspond one to one and in order are sorted alike.         *)
LEMMA SortedAlike ==
  ASSUME NEW S, NEW T, SpansOK(S), SpansOK(T), NEW f \in Bijection(S, T),
         \A s, u \in S : OrderedBefore(f[s], f[u]) <=> OrderedBefore(s, u)
  PROVE  /\ Cardinality(T) = Cardinality(S)
         /\ \A i \in 1 .. Cardinality(S) : Sorted(T)[i] = f[Sorted(S)[i]]
<1>1. /\ f \in [S -> T] /\ \A t \in T : \E s \in S : f[s] = t
      /\ \A s, u \in S : f[s] = f[u] => s = u
  BY DEF Bijection, Injection, Surjection, IsInjective
<1>2. Cardinality(T) = Cardinality(S)
  BY FS_Bijection DEF ExistsBijection, SpansOK
<1>3. ASSUME NEW s \in S  PROVE Position(T, f[s]) = Position(S, s)
  <2> DEFINE A == {u \in S : OrderedBefore(u, s)}
             B == {t \in T : OrderedBefore(t, f[s])}
             g == [u \in A |-> f[u]]
  <2>1. g \in Bijection(A, B)
    <3>1. \A u \in A : f[u] \in B
      BY <1>1
    <3>2. \A t \in B : \E u \in A : f[u] = t
      BY <1>1
    <3>3. \A u, v \in A : f[u] = f[v] => u = v
      BY <1>1
    <3> HIDE DEF A, B
    <3>4. QED
      BY <3>1, <3>2, <3>3 DEF Bijection, Injection, Surjection, IsInjective
  <2>2. IsFiniteSet(A)
    BY FS_Subset DEF SpansOK
  <2> HIDE DEF A, B, g
  <2>3. Cardinality(A) = Cardinality(B)
    BY <2>1, <2>2, FS_Bijection DEF ExistsBijection
  <2>4. QED
    BY <2>3 DEF A, B, Position
<1>4. ASSUME NEW i \in 1 .. Cardinality(S)  PROVE Sorted(T)[i] = f[Sorted(S)[i]]
  <2>1. Sorted(S)[i] \in S /\ Position(S, Sorted(S)[i]) = i
    BY SortedByPosition
  <2>2. f[Sorted(S)[i]] \in T /\ Position(T, f[Sorted(S)[i]]) = i
    BY <1>1, <1>3, <2>1
  <2>3. QED
    BY <2>2, SortedByPosition
<1>5. QED
  BY <1>2, <1>4

(***************************************************************************)
(* A span, exported and imported.                                          *)
(***************************************************************************)

(* Not under the keys of the workbench, a parent with a name, and times    *)
(* int() does not move: Regular, of one span.                              *)
RegularSpan(s) ==
  /\ \A k \in DOMAIN s.attributes : ~Reserved(k)
  /\ s.parent_span_id # Blank
  /\ \A t \in {s.start_time, s.end_time} : t.at >= 0 \/ t.at % 2 = 0

InUTC(t) == [at |-> t.at, zone |-> "UTC"]

(* What comes back of a regular span. *)
Kept(s) ==
  [span_id        |-> s.span_id,
   parent_span_id |-> s.parent_span_id,
   kind           |-> s.kind,
   status         |-> s.status,
   sequence       |-> s.sequence,
   start_time     |-> InUTC(s.start_time),
   end_time       |-> InUTC(s.end_time),
   tool_call      |-> s.tool_call,
   attributes     |-> [k \in DOMAIN s.attributes |->
                         IF k = "otlp.events" THEN EventsDecoded[s.attributes[k]]
                                              ELSE Decoded[s.attributes[k]]]]

(* int() and the microseconds keep every time that is not before 1970 with *)
(* a fraction of a second.                                                 *)
LEMMA NanosKeepTimes ==
  ASSUME NEW t \in Timestamp, t.at >= 0 \/ t.at % 2 = 0
  PROVE  Nanos(t) = t.at
BY DEF Nanos, Timestamp

(* A field is written exactly if it is not None.                           *)
LEMMA WrittenFields ==
  ASSUME NEW f
  PROVE  /\ DOMAIN Written(f) = {k \in DOMAIN f : f[k] # None}
         /\ \A k \in DOMAIN Written(f) : Written(f)[k] = f[k]
BY DEF Written, Restrict

(* The attributes of the workbench. *)
LEMMA OwnAttributesOf ==
  ASSUME NEW s, ValidSpan(s)
  PROVE  /\ DOMAIN OwnAttributes(s) \subseteq OwnKeys
         /\ "workbench.span_id" \in DOMAIN OwnAttributes(s)
         /\ "workbench.kind" \in DOMAIN OwnAttributes(s)
         /\ "workbench.sequence" \in DOMAIN OwnAttributes(s) <=> s.sequence # None
         /\ "workbench.parent_span_id" \in DOMAIN OwnAttributes(s) <=> s.parent_span_id # None
         /\ "workbench.status" \in DOMAIN OwnAttributes(s) <=> s.status # "ok"
         /\ "workbench.tool_call" \in DOMAIN OwnAttributes(s) <=> s.tool_call # None
         /\ OwnAttributes(s)["workbench.span_id"] = s.span_id
         /\ OwnAttributes(s)["workbench.kind"] = s.kind
         /\ s.sequence # None => OwnAttributes(s)["workbench.sequence"] = s.sequence
         /\ s.parent_span_id # None =>
              OwnAttributes(s)["workbench.parent_span_id"] = s.parent_span_id
         /\ s.status # "ok" => OwnAttributes(s)["workbench.status"] = s.status
         /\ s.tool_call # None => OwnAttributes(s)["workbench.tool_call"] = s.tool_call
<1> DEFINE f == [key \in OwnKeys |->
    CASE key = "workbench.span_id"        -> s.span_id
      [] key = "workbench.kind"           -> s.kind
      [] key = "workbench.sequence"       -> s.sequence
      [] key = "workbench.parent_span_id" -> s.parent_span_id
      [] key = "workbench.status"         -> IF s.status = "ok" THEN None ELSE s.status
      [] key = "workbench.tool_call"      -> s.tool_call]
<1>1. /\ DOMAIN f = OwnKeys
      /\ f["workbench.span_id"] = s.span_id /\ f["workbench.kind"] = s.kind
      /\ f["workbench.sequence"] = s.sequence
      /\ f["workbench.parent_span_id"] = s.parent_span_id
      /\ f["workbench.status"] = IF s.status = "ok" THEN None ELSE s.status
      /\ f["workbench.tool_call"] = s.tool_call
  BY DEF OwnKeys
<1>2. OwnAttributes(s) = Written(f)
  BY DEF OwnAttributes
<1> HIDE DEF f
<1>3. /\ DOMAIN OwnAttributes(s) = {k \in OwnKeys : f[k] # None}
      /\ \A k \in DOMAIN OwnAttributes(s) : OwnAttributes(s)[k] = f[k]
  BY <1>1, <1>2, WrittenFields
<1>4. s.span_id # None /\ s.kind # None /\ s.status # None
  BY OtlpAssumption DEF ValidSpan
<1>5. QED
  BY <1>1, <1>3, <1>4 DEF OwnKeys

(* The keys of both, and whose value counts.                               *)
LEMMA OverlayOf ==
  ASSUME NEW f, NEW g
  PROVE  /\ DOMAIN Over(f, g) = DOMAIN f \cup DOMAIN g
         /\ \A k \in DOMAIN f : Over(f, g)[k] = f[k]
         /\ \A k \in DOMAIN g : k \notin DOMAIN f => Over(f, g)[k] = g[k]
BY DEF Over

(* otlp.py:225 and otlp.py:148: each field of a regular span comes back    *)
(* from where it was written.                                              *)
LEMMA SpansComeBack ==
  ASSUME NEW d, NEW s, ValidSpan(s), RegularSpan(s)
  PROVE  _span_to_trace_span(_span_to_otlp(d, s)) = Kept(s)
<1> DEFINE others == [k \in DOMAIN s.attributes \ {"otlp.events"} |-> Decoded[s.attributes[k]]]
           a == Over(OwnAttributes(s), others)
           o == _span_to_otlp(d, s)
           users == {k \in DOMAIN a : ~Reserved(k)}
           events == IF o.events = None THEN {} ELSE {"otlp.events"}
<1>1. /\ o.attributes = a /\ o.start = s.start_time.at /\ o.end = s.end_time.at
      /\ o.events = IF "otlp.events" \in DOMAIN s.attributes
                    THEN s.attributes["otlp.events"] ELSE None
      /\ o.code = IF s.status = "ok" THEN 1 ELSE 2
      /\ s.parent_span_id = None => o.parentSpanId = None
  BY NanosKeepTimes DEF _span_to_otlp, RegularSpan, ValidSpan
<1>2. /\ DOMAIN others = DOMAIN s.attributes \ {"otlp.events"}
      /\ \A k \in DOMAIN others : others[k] = Decoded[s.attributes[k]] /\ k \notin OwnKeys
  BY DEF RegularSpan, Reserved
<1> HIDE DEF others
<1>3. /\ DOMAIN a = DOMAIN OwnAttributes(s) \cup (DOMAIN s.attributes \ {"otlp.events"})
      /\ \A k \in DOMAIN OwnAttributes(s) : a[k] = OwnAttributes(s)[k]
      /\ \A k \in DOMAIN s.attributes \ {"otlp.events"} : a[k] = Decoded[s.attributes[k]]
      /\ \A k \in OwnKeys : k \in DOMAIN a <=> k \in DOMAIN OwnAttributes(s)
  <2>1. /\ DOMAIN a = DOMAIN OwnAttributes(s) \cup DOMAIN others
        /\ \A k \in DOMAIN OwnAttributes(s) : a[k] = OwnAttributes(s)[k]
        /\ \A k \in DOMAIN others : k \notin DOMAIN OwnAttributes(s) => a[k] = others[k]
    BY OverlayOf
  <2> HIDE DEF a
  <2>2. DOMAIN OwnAttributes(s) \subseteq OwnKeys
    BY OwnAttributesOf
  <2>3. QED
    BY <1>2, <2>1, <2>2
<1> HIDE DEF a, o
<1>4. GetOr(a, "workbench.span_id", o.spanId) = s.span_id
  BY <1>3, OwnAttributesOf, OtlpAssumption DEF GetOr, ValidSpan
<1>5. GetOr(a, "workbench.parent_span_id",
            IF o.parentSpanId = Blank THEN None ELSE o.parentSpanId) = s.parent_span_id
  BY <1>1, <1>3, OwnAttributesOf DEF GetOr, RegularSpan, OwnKeys
<1>6. _normalized_kind(a) = s.kind
  <2>1. GetOr(a, "workbench.kind", "internal") = s.kind
    BY <1>3, OwnAttributesOf, OtlpAssumption DEF GetOr, ValidSpan
  <2>2. s.kind = "tool" => "workbench.tool_call" \in DOMAIN a
    BY <1>3, OwnAttributesOf DEF ValidSpan, OwnKeys
  <2>3. QED
    BY <2>1, <2>2 DEF _normalized_kind, ValidSpan
<1>7. _normalized_status(a, o.code) = s.status
  <2>1. CASE s.status = "ok"
    BY <1>1, <1>3, <2>1, OwnAttributesOf DEF _normalized_status, OwnKeys
  <2>2. CASE s.status # "ok"
    BY <1>3, <2>2, OwnAttributesOf DEF _normalized_status, ValidSpan
  <2>3. QED
    BY <2>1, <2>2
<1>8. _normalized_sequence(a) = s.sequence
  BY <1>3, OwnAttributesOf DEF _normalized_sequence, ValidSpan, OwnKeys
<1>9. GetOr(a, "workbench.tool_call", None) = s.tool_call
  BY <1>3, OwnAttributesOf, OtlpAssumption DEF GetOr, ValidSpan, OwnKeys
<1>10. users \cup events = DOMAIN s.attributes
  <2>1. users = DOMAIN s.attributes \ {"otlp.events"}
    BY <1>3, OwnAttributesOf DEF RegularSpan, Reserved
  <2>2. o.events = None <=> "otlp.events" \notin DOMAIN s.attributes
    BY <1>1, OtlpAssumption DEF ValidSpan
  <2>3. QED
    BY <2>1, <2>2
<1>11. [k \in users \cup events |-> IF k \in events THEN EventsDecoded[o.events] ELSE a[k]]
        = Kept(s).attributes
  <2>1. ASSUME NEW k \in DOMAIN s.attributes
        PROVE  (IF k \in events THEN EventsDecoded[o.events] ELSE a[k])
                 = IF k = "otlp.events" THEN EventsDecoded[s.attributes[k]]
                                        ELSE Decoded[s.attributes[k]]
    <3>1. k \in events <=> k = "otlp.events"
      BY <1>1, OtlpAssumption DEF ValidSpan
    <3>2. QED
      BY <1>1, <1>3, <3>1
  <2> HIDE DEF users, events
  <2>2. QED
    BY <1>10, <2>1 DEF Kept
<1>12. _span_to_trace_span(o) =
         [span_id        |-> GetOr(a, "workbench.span_id", o.spanId),
          parent_span_id |-> GetOr(a, "workbench.parent_span_id",
                                   IF o.parentSpanId = Blank THEN None ELSE o.parentSpanId),
          kind           |-> _normalized_kind(a),
          status         |-> _normalized_status(a, o.code),
          sequence       |-> _normalized_sequence(a),
          start_time     |-> [at |-> o.start, zone |-> "UTC"],
          end_time       |-> [at |-> o.end, zone |-> "UTC"],
          tool_call      |-> GetOr(a, "workbench.tool_call", None),
          attributes     |-> [k \in users \cup events |->
                                IF k \in events THEN EventsDecoded[o.events] ELSE a[k]]]
  BY <1>1 DEF _span_to_trace_span
<1> HIDE DEF users, events
<1>13. _span_to_trace_span(o) = Kept(s)
  BY <1>1, <1>4, <1>5, <1>6, <1>7, <1>8, <1>9, <1>11, <1>12 DEF Kept, InUTC
<1>14. QED
  BY <1>13 DEF o

(* Settled, of one span.                                                   *)
SettledSpan(s) ==
  \A k \in DOMAIN s.attributes :
    LET Read(v) == IF k = "otlp.events" THEN EventsDecoded[v] ELSE Decoded[v]
    IN  Read(Read(s.attributes[k])) = Read(s.attributes[k])

Bare(s) == [s EXCEPT !.attributes = << >>]

LEMMA BareKept ==
  ASSUME NEW s
  PROVE  Bare(Kept(s)) =
           [span_id |-> s.span_id, parent_span_id |-> s.parent_span_id, kind |-> s.kind,
            status |-> s.status, sequence |-> s.sequence, start_time |-> InUTC(s.start_time),
            end_time |-> InUTC(s.end_time), tool_call |-> s.tool_call, attributes |-> << >>]
<1>1. PICK a : a = Kept(s).attributes
  OBVIOUS
<1>2. Kept(s) =
           [span_id |-> s.span_id, parent_span_id |-> s.parent_span_id, kind |-> s.kind,
            status |-> s.status, sequence |-> s.sequence, start_time |-> InUTC(s.start_time),
            end_time |-> InUTC(s.end_time), tool_call |-> s.tool_call, attributes |-> a]
  BY <1>1 DEF Kept
<1>3. QED
  BY <1>2 DEF Bare

(* What comes back is valid and regular, and comes back as it is but for   *)
(* values that are not settled.                                            *)
LEMMA KeptSpans ==
  ASSUME NEW s, ValidSpan(s), RegularSpan(s)
  PROVE  /\ ValidSpan(Kept(s)) /\ RegularSpan(Kept(s))
         /\ Bare(Kept(Kept(s))) = Bare(Kept(s))
         /\ Kept(Kept(s)).start_time = Kept(s).start_time
         /\ Kept(Kept(s)).end_time = Kept(s).end_time
         /\ SettledSpan(s) => Kept(Kept(s)) = Kept(s)
<1>1. /\ Kept(s).span_id = s.span_id /\ Kept(s).parent_span_id = s.parent_span_id
      /\ Kept(s).kind = s.kind /\ Kept(s).status = s.status /\ Kept(s).sequence = s.sequence
      /\ Kept(s).start_time = InUTC(s.start_time) /\ Kept(s).end_time = InUTC(s.end_time)
      /\ Kept(s).tool_call = s.tool_call
      /\ DOMAIN Kept(s).attributes = DOMAIN s.attributes
      /\ \A k \in DOMAIN s.attributes :
           Kept(s).attributes[k] = IF k = "otlp.events" THEN EventsDecoded[s.attributes[k]]
                                                        ELSE Decoded[s.attributes[k]]
  BY DEF Kept
<1>2. /\ InUTC(s.start_time).at = s.start_time.at /\ InUTC(s.end_time).at = s.end_time.at
      /\ InUTC(s.start_time) \in Timestamp /\ InUTC(s.end_time) \in Timestamp
      /\ InUTC(InUTC(s.start_time)) = InUTC(s.start_time)
      /\ InUTC(InUTC(s.end_time)) = InUTC(s.end_time)
  BY OtlpAssumption DEF InUTC, Timestamp, ValidSpan
<1>3. \A k \in DOMAIN s.attributes :
        /\ Kept(s).attributes[k] \in UserValues
        /\ SettledSpan(s) /\ k = "otlp.events" =>
             EventsDecoded[Kept(s).attributes[k]] = Kept(s).attributes[k]
        /\ SettledSpan(s) /\ k # "otlp.events" =>
             Decoded[Kept(s).attributes[k]] = Kept(s).attributes[k]
  BY <1>1, OtlpAssumption DEF ValidSpan, SettledSpan
<1>4. ValidSpan(Kept(s)) /\ RegularSpan(Kept(s))
  BY <1>1, <1>2, <1>3 DEF ValidSpan, RegularSpan
<1>5. SettledSpan(s) => Kept(Kept(s)).attributes = Kept(s).attributes
  BY <1>1, <1>3 DEF Kept
<1>6. SettledSpan(s) => Kept(Kept(s)) = Kept(s)
  BY <1>1, <1>2, <1>5 DEF Kept
<1>8. Bare(Kept(Kept(s))) = Bare(Kept(s))
  BY <1>1, <1>2, BareKept
<1>9. Kept(Kept(s)).start_time = Kept(s).start_time /\ Kept(Kept(s)).end_time = Kept(s).end_time
  BY <1>1, <1>2 DEF Kept
<1>7. QED
  BY <1>4, <1>6, <1>8, <1>9

(* What comes back of the metadata and of the document: times in UTC, the  *)
(* limits taken of the spans, no further fields.                           *)
KeptMetadata(d) ==
  IF d.metadata # EmptyMetadata THEN d.metadata
  ELSE [otlp_resource |-> [k \in DOMAIN Resource(d) \ {"workbench.run_id", "workbench.trace_id"} |->
                             Resource(d)[k]]]

KeptDocument(d) ==
  LET spans == {Kept(s) : s \in d.spans}
  IN  [run_id        |-> d.run_id,
       trace_id      |-> d.trace_id,
       agent_name    |-> d.agent_name,
       agent_version |-> IF d.agent_version = Blank THEN "local" ELSE d.agent_version,
       metadata      |-> KeptMetadata(d),
       started_at    |-> Earliest({s.start_time : s \in spans}),
       ended_at      |-> Latest({s.end_time : s \in spans}),
       spans         |-> spans,
       extra         |-> None]

(* The attributes of a resource.                                           *)
LEMMA ResourceOf ==
  ASSUME NEW d
  PROVE  /\ "service.name" \in DOMAIN Resource(d) /\ Resource(d)["service.name"] = d.agent_name
         /\ "service.version" \in DOMAIN Resource(d)
         /\ Resource(d)["service.version"] = d.agent_version
         /\ "workbench.run_id" \in DOMAIN Resource(d) /\ Resource(d)["workbench.run_id"] = d.run_id
         /\ "workbench.trace_id" \in DOMAIN Resource(d)
         /\ Resource(d)["workbench.trace_id"] = d.trace_id
         /\ "workbench.metadata" \in DOMAIN Resource(d) <=> d.metadata # EmptyMetadata
         /\ d.metadata # EmptyMetadata => Resource(d)["workbench.metadata"] = d.metadata
<1> DEFINE metadata == IF d.metadata = EmptyMetadata THEN {} ELSE {"workbench.metadata"}
           m == [key \in metadata |-> d.metadata]
           f == [key \in ResourceKeys |->
                   CASE key = "service.name"       -> d.agent_name
                     [] key = "service.version"    -> d.agent_version
                     [] key = "workbench.run_id"   -> d.run_id
                     [] key = "workbench.trace_id" -> d.trace_id]
<1>1. /\ DOMAIN f = ResourceKeys
      /\ f["service.name"] = d.agent_name /\ f["service.version"] = d.agent_version
      /\ f["workbench.run_id"] = d.run_id /\ f["workbench.trace_id"] = d.trace_id
  BY DEF ResourceKeys
<1>2. DOMAIN m = metadata /\ \A key \in metadata : m[key] = d.metadata
  OBVIOUS
<1>3. Resource(d) = Over(m, f)
  BY DEF Resource
<1> HIDE DEF m, f
<1>4. /\ DOMAIN Resource(d) = metadata \cup ResourceKeys
      /\ \A key \in metadata : Resource(d)[key] = d.metadata
      /\ \A key \in ResourceKeys : key \notin metadata => Resource(d)[key] = f[key]
  <2>1. /\ DOMAIN Over(m, f) = DOMAIN m \cup DOMAIN f
        /\ \A key \in DOMAIN m : Over(m, f)[key] = m[key]
        /\ \A key \in DOMAIN f : key \notin DOMAIN m => Over(m, f)[key] = f[key]
    BY OverlayOf
  <2>2. QED
    BY <1>1, <1>2, <1>3, <2>1
<1>5. QED
  BY <1>1, <1>4 DEF ResourceKeys

(* The one document an exported run is read back as. *)
LEMMA DocumentsComeBack ==
  ASSUME NEW d, Valid(d), Regular(d)
  PROVE  parse_otlp_json(trace_to_otlp_json(d)) = <<KeptDocument(d)>>
<1> DEFINE spans == ordered_spans(d)
           n == Cardinality(d.spans)
           group == [attributes |-> Resource(d),
                     spans      |-> [i \in 1 .. Len(spans) |-> _span_to_otlp(d, spans[i])]]
<1>1. SpansOK(d.spans) /\ d.spans # {} /\ \A s \in d.spans : ValidSpan(s) /\ RegularSpan(s)
  BY DEF Valid, SpansOK, Regular, RegularSpan
<1>2. /\ n \in Nat /\ n # 0 /\ Len(spans) = n
      /\ \A i \in 1 .. n : spans[i] \in d.spans
      /\ \A s \in d.spans : \E i \in 1 .. n : spans[i] = s
  <2>1. n # 0
    BY <1>1, FS_EmptySet DEF SpansOK
  <2>2. QED
    BY <1>1, <2>1, SortedByPosition DEF ordered_spans
<1> HIDE DEF n
<1>3. trace_to_otlp_json(d) = <<group>>
  BY DEF trace_to_otlp_json
<1>4. /\ group.attributes = Resource(d)
      /\ Len(group.spans) = n /\ group.spans # << >>
      /\ \A i \in 1 .. n : group.spans[i] = _span_to_otlp(d, spans[i])
  BY <1>2
<1> HIDE DEF group, spans
<1>5. {_span_to_trace_span(group.spans[i]) : i \in 1 .. Len(group.spans)} = {Kept(s) : s \in d.spans}
  <2>1. \A i \in 1 .. n : _span_to_trace_span(group.spans[i]) = Kept(spans[i])
    BY <1>1, <1>2, <1>4, SpansComeBack
  <2>2. QED
    BY <1>2, <1>4, <2>1
<1>6. _resource_spans_to_document(group) = KeptDocument(d)
  <2>1. /\ \A otherwise : GetOr(group.attributes, "workbench.run_id", otherwise) = d.run_id
        /\ \A otherwise : GetOr(group.attributes, "workbench.trace_id", otherwise) = d.trace_id
        /\ \A otherwise : GetOr(group.attributes, "service.name", otherwise) = d.agent_name
    <3>1. /\ d.run_id \notin {None, Blank} /\ d.trace_id \notin {None, Blank}
          /\ d.agent_name \notin {None, Blank}
      BY OtlpAssumption DEF Valid
    <3>2. QED
      BY <1>4, <3>1, ResourceOf DEF GetOr
  <2>2. GetOr(group.attributes, "service.version", "local")
          = IF d.agent_version = Blank THEN "local" ELSE d.agent_version
    BY <1>4, ResourceOf DEF GetOr, Valid
  <2>3. _import_metadata(group.attributes) = KeptMetadata(d)
    BY <1>4, ResourceOf DEF _import_metadata, KeptMetadata
  <2>4. QED
    BY <1>5, <2>1, <2>2, <2>3 DEF _resource_spans_to_document, KeptDocument
<1>7. parse_otlp_json(<<group>>) = <<_resource_spans_to_document(group)>>
  <2> DEFINE payload == <<group>>
             entries == {i \in DOMAIN payload : payload[i].spans # << >>}
             EntryAt(k) == CHOOSE i \in entries : Cardinality({j \in entries : j <= i}) = k
  <2>1. entries = {1}
    BY <1>4
  <2>2. Cardinality({1}) = 1
    BY FS_Singleton
  <2>3. {j \in {1} : j <= 1} = {1}
    OBVIOUS
  <2>4. EntryAt(1) = 1
    BY <2>1, <2>2, <2>3
  <2>5. parse_otlp_json(payload)
          = [k \in 1 .. Cardinality(entries) |-> _resource_spans_to_document(payload[EntryAt(k)])]
    BY DEF parse_otlp_json
  <2>6. Cardinality(entries) = 1
    BY <2>1, <2>2
  <2> HIDE DEF entries, EntryAt
  <2>7. parse_otlp_json(payload) = [k \in 1 .. 1 |-> _resource_spans_to_document(payload[EntryAt(k)])]
    BY <2>5, <2>6
  <2>8. \A k \in 1 .. 1 : _resource_spans_to_document(payload[EntryAt(k)]) = _resource_spans_to_document(group)
    BY <2>4
  <2>9. parse_otlp_json(payload) = [k \in 1 .. 1 |-> _resource_spans_to_document(group)]
    BY <2>7, <2>8
  <2>10. QED
    BY <2>9
<1>8. QED
  BY <1>3, <1>6, <1>7

(* Spans that come back: one for one, and in the same order.               *)
LEMMA KeptInOrder ==
  ASSUME NEW S, SpansOK(S), \A s \in S : RegularSpan(s)
  PROVE  /\ SpansOK({Kept(s) : s \in S})
         /\ Cardinality({Kept(s) : s \in S}) = Cardinality(S)
         /\ \A i \in 1 .. Cardinality(S) : Sorted({Kept(s) : s \in S})[i] = Kept(Sorted(S)[i])
<1> DEFINE T == {Kept(s) : s \in S}
           f == [s \in S |-> Kept(s)]
<1>1. \A s \in S : /\ ValidSpan(s) /\ ValidSpan(Kept(s))
                   /\ Kept(s).span_id = s.span_id /\ Kept(s).sequence = s.sequence
                   /\ Kept(s).start_time.at = s.start_time.at
  BY KeptSpans DEF SpansOK, Kept, InUTC
<1>2. \A s, u \in S : Kept(s) = Kept(u) => s = u
  BY <1>1 DEF SpansOK
<1>3. f \in Bijection(S, T) /\ \A s \in S : f[s] = Kept(s)
  BY <1>2 DEF Bijection, Injection, Surjection, IsInjective
<1> HIDE DEF f
<1>4. SpansOK(T)
  <2>1. IsFiniteSet(T)
    BY <1>3, FS_Bijection DEF SpansOK, ExistsBijection
  <2>2. QED
    BY <1>1, <2>1 DEF SpansOK
<1>5. \A s, u \in S : OrderedBefore(f[s], f[u]) <=> OrderedBefore(s, u)
  BY <1>1, <1>3, OrderByColumns DEF Unnumbered, Number
<1> HIDE DEF T
<1>6. /\ Cardinality(T) = Cardinality(S)
      /\ \A i \in 1 .. Cardinality(S) : Sorted(T)[i] = f[Sorted(S)[i]]
  BY <1>3, <1>4, <1>5, SortedAlike
<1>7. \A i \in 1 .. Cardinality(S) : Sorted(S)[i] \in S
  BY SortedByPosition
<1>8. QED
  BY <1>3, <1>4, <1>6, <1>7 DEF T

(* The recorded calls of a document.                                       *)
LEMMA ToolSpans ==
  ASSUME NEW d, Valid(d)
  PROVE  /\ SpansOK({s \in d.spans : s.kind = "tool"})
         /\ tool_calls(d) \in Seq(ToolCall)
         /\ Len(tool_calls(d)) = Cardinality({s \in d.spans : s.kind = "tool"})
         /\ \A i \in 1 .. Len(tool_calls(d)) :
              tool_calls(d)[i] = Sorted({s \in d.spans : s.kind = "tool"})[i].tool_call
<1> DEFINE S == {s \in d.spans : s.kind = "tool"}
           n == Cardinality(S)
<1>1. SpansOK(S)
  BY FS_Subset DEF Valid, SpansOK
<1>2. \A s \in S : s.tool_call \in ToolCall
  BY DEF Valid, ValidSpan
<1> HIDE DEF S
<1>3. n \in Nat /\ Len(Sorted(S)) = n /\ \A i \in 1 .. n : Sorted(S)[i] \in S
  BY <1>1, SortedByPosition
<1> HIDE DEF n
<1>4. tool_calls(d) = [i \in 1 .. n |-> Sorted(S)[i].tool_call]
  BY <1>3 DEF tool_calls, S
<1>5. tool_calls(d) \in Seq(ToolCall)
  BY <1>2, <1>3, <1>4
<1>6. Len(tool_calls(d)) = n
  BY <1>3, <1>4
<1>7. QED
  BY <1>1, <1>4, <1>5, <1>6 DEF S, n

(* They come back, in the same order.                                      *)
LEMMA CallsComeBack ==
  ASSUME NEW d, Valid(d), Regular(d), NEW back, Valid(back),
         back.spans = {Kept(s) : s \in d.spans}
  PROVE  tool_calls(back) = tool_calls(d)
<1> DEFINE S == {s \in d.spans : s.kind = "tool"}
           T == {s \in back.spans : s.kind = "tool"}
<1>1. T = {Kept(s) : s \in S}
  BY DEF Kept
<1>2. \A s \in S : RegularSpan(s)
  BY DEF Regular, RegularSpan
<1>3. SpansOK(S)
  BY ToolSpans
<1> HIDE DEF S, T
<1>4. /\ Cardinality(T) = Cardinality(S) /\ Cardinality(S) \in Nat
      /\ \A i \in 1 .. Cardinality(S) : Sorted(T)[i] = Kept(Sorted(S)[i])
  BY <1>1, <1>2, <1>3, KeptInOrder, SortedByPosition
<1>5. \A i \in 1 .. Cardinality(S) : Sorted(T)[i].tool_call = Sorted(S)[i].tool_call
  <2>1. \A s : Kept(s).tool_call = s.tool_call
    BY DEF Kept
  <2>2. QED
    BY <1>4, <2>1
<1>6. /\ tool_calls(d) \in Seq(ToolCall) /\ Len(tool_calls(d)) = Cardinality(S)
      /\ \A i \in 1 .. Cardinality(S) : tool_calls(d)[i] = Sorted(S)[i].tool_call
  BY ToolSpans DEF S
<1>7. /\ tool_calls(back) \in Seq(ToolCall) /\ Len(tool_calls(back)) = Cardinality(T)
      /\ \A i \in 1 .. Cardinality(T) : tool_calls(back)[i] = Sorted(T)[i].tool_call
  BY ToolSpans DEF T
<1>8. QED
  BY <1>4, <1>5, <1>6, <1>7

(* A run compared with itself. *)
LEMMA SameCalls ==
  ASSUME NEW calls \in Seq(ToolCall)
  PROVE  /\ changed_tools(compare_runs(calls, calls)) = 0
         /\ error_changed_tools(compare_runs(calls, calls)) = 0
<1> DEFINE diffs == compare_runs(calls, calls)
<1>1. Len(calls) \in Nat /\ DOMAIN calls = 1 .. Len(calls) /\ Longer(Len(calls), Len(calls)) = Len(calls)
  BY DEF Longer
<1>2. DOMAIN diffs = 1 .. Len(calls)
  BY <1>1 DEF compare_runs
<1>3. ASSUME NEW i \in 1 .. Len(calls)
      PROVE  diffs[i].state = "same" /\ diffs[i].error_changed = FALSE
  <2>1. calls[i] \in ToolCall /\ calls[i] # None
    BY RecordedAssumption
  <2>2. Equal(calls[i].arguments, calls[i].arguments)
    BY <2>1 DEF Equal, ToolCall
  <2>3. diffs[i] = Matched(calls[i], calls[i])
    BY <1>1, <2>1 DEF compare_runs, At, Diff
  <2>4. Matched(calls[i], calls[i]).state = "same"
    BY <2>2 DEF Matched, SameHash
  <2>5. Matched(calls[i], calls[i]).error_changed = FALSE
    BY DEF Matched
  <2>6. QED
    BY <2>3, <2>4, <2>5
<1> HIDE DEF diffs
<1>4. /\ {i \in DOMAIN diffs : diffs[i].state \in {"changed", "added", "removed"}} = {}
      /\ {i \in DOMAIN diffs : diffs[i].error_changed} = {}
  BY <1>2, <1>3
<1>5. QED
  BY <1>4, FS_EmptySet DEF changed_tools, Count, error_changed_tools, diffs

(* What comes back is a document of the contract, and it comes back as it  *)
(* is but for values of attributes that are not settled.                   *)
LEMMA KeptDocuments ==
  ASSUME NEW d, Valid(d), Regular(d)
  PROVE  /\ Valid(KeptDocument(d)) /\ Regular(KeptDocument(d))
         /\ WithoutAttributes(KeptDocument(KeptDocument(d))) = WithoutAttributes(KeptDocument(d))
         /\ Settled(d) => KeptDocument(KeptDocument(d)) = KeptDocument(d)
<1> DEFINE k == KeptDocument(d)
           S == {Kept(s) : s \in d.spans}
           starts == {s.start_time : s \in S}
           ends == {s.end_time : s \in S}
<1>1. /\ k.run_id = d.run_id /\ k.trace_id = d.trace_id /\ k.agent_name = d.agent_name
      /\ k.agent_version = IF d.agent_version = Blank THEN "local" ELSE d.agent_version
      /\ k.metadata = KeptMetadata(d) /\ k.spans = S
      /\ k.started_at = Earliest(starts) /\ k.ended_at = Latest(ends) /\ k.extra = None
  BY DEF KeptDocument
<1>2. SpansOK(d.spans) /\ d.spans # {} /\ \A s \in d.spans : RegularSpan(s) /\ ValidSpan(s)
  BY DEF Valid, SpansOK, Regular, RegularSpan
<1>3. SpansOK(S) /\ S # {}
  BY <1>2, KeptInOrder
<1>4. /\ \A s \in S : ValidSpan(s) /\ RegularSpan(s)
      /\ Settled(d) => \A s \in S : Kept(s) = s
  <2>1. Settled(d) => \A s \in d.spans : SettledSpan(s)
    BY DEF Settled, SettledSpan
  <2>2. QED
    BY <1>2, <2>1, KeptSpans
<1>11. \A s \in S : /\ Bare(Kept(s)) = Bare(s)
                    /\ Kept(s).start_time = s.start_time /\ Kept(s).end_time = s.end_time
  BY <1>2, KeptSpans
<1> HIDE DEF S, k
<1>5. Earliest(starts).at <= Latest(ends).at
  <2>1. IsFiniteSet(starts) /\ IsFiniteSet(ends)
    <3>1. /\ [s \in S |-> s.start_time] \in Surjection(S, starts)
          /\ [s \in S |-> s.end_time] \in Surjection(S, ends)
      BY DEF Surjection
    <3>2. IsFiniteSet(S)
      BY <1>3 DEF SpansOK
    <3> HIDE DEF starts, ends
    <3>3. QED
      BY <3>1, <3>2, FS_Surjection
  <2>2. starts \in SUBSET Timestamp /\ starts # {} /\ ends \in SUBSET Timestamp /\ ends # {}
    BY <1>3, <1>4 DEF ValidSpan
  <2>3. PICK s \in S : TRUE
    BY <1>3
  <2>4. /\ s.start_time \in starts /\ s.end_time \in ends
        /\ s.start_time.at <= s.end_time.at
    BY <1>4, <2>3 DEF ValidSpan
  <2> HIDE DEF starts, ends
  <2>5. /\ Earliest(starts) \in Timestamp /\ Latest(ends) \in Timestamp
        /\ Earliest(starts).at <= s.start_time.at /\ s.end_time.at <= Latest(ends).at
        /\ s.start_time \in Timestamp /\ s.end_time \in Timestamp
    BY <2>1, <2>2, <2>4, EarliestAndLatest
  <2>6. QED
    BY <2>4, <2>5 DEF Timestamp
<1>6. Valid(k)
  <2>1. k.agent_version # None
    BY <1>1, OtlpAssumption DEF Valid
  <2>2. QED
    BY <1>1, <1>3, <1>4, <1>5, <2>1 DEF Valid, SpansOK
<1>7. Regular(k)
  BY <1>1, <1>4 DEF Regular, RegularSpan
<1>8. ASSUME Settled(d)  PROVE KeptDocument(k) = k
  <2>1. {Kept(s) : s \in k.spans} = S
    BY <1>1, <1>4, <1>8
  <2>2. KeptMetadata(k) = k.metadata
    BY <1>1 DEF KeptMetadata, EmptyMetadata
  <2>3. k.agent_version # Blank
    BY <1>1, OtlpAssumption
  <2>4. KeptDocument(k) =
         [run_id        |-> k.run_id,
          trace_id      |-> k.trace_id,
          agent_name    |-> k.agent_name,
          agent_version |-> k.agent_version,
          metadata      |-> k.metadata,
          started_at    |-> Earliest(starts),
          ended_at      |-> Latest(ends),
          spans         |-> S,
          extra         |-> None]
    BY <2>1, <2>2, <2>3 DEF KeptDocument
  <2>5. k =
         [run_id        |-> d.run_id,
          trace_id      |-> d.trace_id,
          agent_name    |-> d.agent_name,
          agent_version |-> IF d.agent_version = Blank THEN "local" ELSE d.agent_version,
          metadata      |-> KeptMetadata(d),
          started_at    |-> Earliest(starts),
          ended_at      |-> Latest(ends),
          spans         |-> S,
          extra         |-> None]
    BY DEF k, KeptDocument, S
  <2> HIDE DEF starts, ends
  <2>6. QED
    BY <1>1, <2>4, <2>5
<1>10. WithoutAttributes(KeptDocument(k)) = WithoutAttributes(k)
  <2> DEFINE twice == {Kept(s) : s \in S}
  <2>1. /\ {s.start_time : s \in twice} = starts /\ {s.end_time : s \in twice} = ends
    BY <1>11
  <2>2. {Bare(s) : s \in twice} = {Bare(s) : s \in S}
    BY <1>11
  <2>3. KeptMetadata(k) = k.metadata
    BY <1>1 DEF KeptMetadata, EmptyMetadata
  <2>4. k.agent_version # Blank
    BY <1>1, OtlpAssumption
  <2>5. KeptDocument(k) =
         [run_id        |-> k.run_id,
          trace_id      |-> k.trace_id,
          agent_name    |-> k.agent_name,
          agent_version |-> k.agent_version,
          metadata      |-> k.metadata,
          started_at    |-> Earliest(starts),
          ended_at      |-> Latest(ends),
          spans         |-> twice,
          extra         |-> None]
    BY <1>1, <2>1, <2>3, <2>4 DEF KeptDocument
  <2>6. k =
         [run_id        |-> k.run_id,
          trace_id      |-> k.trace_id,
          agent_name    |-> k.agent_name,
          agent_version |-> k.agent_version,
          metadata      |-> k.metadata,
          started_at    |-> Earliest(starts),
          ended_at      |-> Latest(ends),
          spans         |-> S,
          extra         |-> None]
    BY <1>1 DEF k, KeptDocument, S
  <2> HIDE DEF starts, ends, twice
  <2>7. KeptDocument(k).spans = twice /\ k.spans = S
    BY <1>1, <2>5
  <2>8. ASSUME NEW x  PROVE WithoutAttributes(x) = [x EXCEPT !.spans = {Bare(s) : s \in x.spans}]
    BY DEF WithoutAttributes, Bare
  <2>9. PICK bare : bare = {Bare(s) : s \in twice} /\ bare = {Bare(s) : s \in S}
    BY <2>2
  <2>10. /\ WithoutAttributes(KeptDocument(k)) = [KeptDocument(k) EXCEPT !.spans = bare]
         /\ WithoutAttributes(k) = [k EXCEPT !.spans = bare]
    BY <2>7, <2>8, <2>9
  <2>11. QED
    BY <2>5, <2>6, <2>10
<1>9. QED
  BY <1>6, <1>7, <1>8, <1>10 DEF k

(* README.md:926 of a regular document. *)
LEMMA RoundTripKeeps ==
  ASSUME NEW d, Valid(d), Regular(d)
  PROVE  /\ parse_otlp_json(trace_to_otlp_json(d)) = <<RoundTrip(d)>>
         /\ KeepsEvidence(d)
<1> DEFINE back == KeptDocument(d)
<1>1. /\ parse_otlp_json(trace_to_otlp_json(d)) = <<back>> /\ RoundTrip(d) = back
      /\ back.run_id = d.run_id /\ back.spans = {Kept(s) : s \in d.spans}
  <2>1. back.run_id = d.run_id /\ back.spans = {Kept(s) : s \in d.spans}
    BY DEF KeptDocument
  <2> HIDE DEF back
  <2>2. parse_otlp_json(trace_to_otlp_json(d)) = <<back>>
    BY DocumentsComeBack DEF back
  <2>3. QED
    BY <2>1, <2>2 DEF RoundTrip
<1>2. /\ Valid(back) /\ Regular(back)
      /\ WithoutAttributes(KeptDocument(back)) = WithoutAttributes(back)
      /\ Settled(d) => KeptDocument(back) = back
  BY KeptDocuments
<1> HIDE DEF back
<1>3. Parses(trace_to_otlp_json(d))
  BY <1>1, <1>2 DEF Parses
<1>4. /\ changed_tools(compare_runs(tool_calls(d), tool_calls(back))) = 0
      /\ error_changed_tools(compare_runs(tool_calls(d), tool_calls(back))) = 0
  <2>1. tool_calls(back) = tool_calls(d) /\ tool_calls(d) \in Seq(ToolCall)
    BY <1>1, <1>2, CallsComeBack, ToolSpans
  <2>2. QED
    BY <2>1, SameCalls
<1>5. \A s : /\ Kept(s).span_id = s.span_id /\ Kept(s).parent_span_id = s.parent_span_id
            /\ Kept(s).status = s.status /\ Kept(s).tool_call = s.tool_call
  BY DEF Kept
<1>6. status(back) = status(d)
  BY <1>1, <1>5 DEF status
<1>7. {<<s.span_id, s.parent_span_id, s.status>> : s \in back.spans}
        = {<<s.span_id, s.parent_span_id, s.status>> : s \in d.spans}
  BY <1>1, <1>5
<1>8. RoundTrip(back) = KeptDocument(back)
  BY <1>2, DocumentsComeBack DEF RoundTrip
<1>9. QED
  BY <1>1, <1>2, <1>3, <1>4, <1>6, <1>7, <1>8 DEF KeepsEvidence

(***************************************************************************)
(* Jobs.                                                                   *)
(***************************************************************************)

LibraryOK ==
  /\ library = [r \in RunIds |-> library[r]]
  /\ \A r \in RunIds : library[r] # None => Valid(library[r])

FilesOK ==
  /\ files = [n \in FileNames |-> files[n]]
  /\ \A n \in FileNames :
       /\ files[n].format = "json" => Valid(files[n].payload)
       /\ files[n].format = "otlp" => IsFiniteSet(DOMAIN files[n].payload)

(* Run i of an export that nobody touches and that shares its file name    *)
(* with no other run.                                                      *)
Alone(k, p, i) ==
  /\ k.ids[i] \notin touched[p]
  /\ \A j \in 1 .. Len(k.ids) \ {i} : FileName[k.ids[j]] # FileName[k.ids[i]]

(* The file of a run that was written is the run as it is.                 *)
ExportOK(k, p) ==
  /\ p = Command
  /\ k = [kind |-> "export", state |-> k.state, format |-> k.format, ids |-> k.ids,
          next |-> k.next, trace |-> k.trace]
  /\ k.format \in Formats /\ k.ids \in Seq(RunIds)
  /\ k.next \in 1 .. Len(k.ids) + 1
  /\ k.state = "done" => k.next = Len(k.ids) + 1
  /\ k.trace # None =>
       /\ Valid(k.trace) /\ k.next <= Len(k.ids)
       /\ k.ids[k.next] \notin touched[p] => library[k.ids[k.next]] = k.trace
  /\ \A i \in 1 .. k.next - 1 : Alone(k, p, i) =>
       /\ library[k.ids[i]] # None
       /\ files[<<FileName[k.ids[i]], k.format>>] = Contents(k.format, library[k.ids[i]])

(* ImportsApplyAPrefix, of the documents before the next one.              *)
PrefixStored(k, p) ==
  \A i \in 1 .. k.next - 1 :
    LET r == k.documents[i].run_id
        same == {j \in 1 .. k.next - 1 : k.documents[j].run_id = r}
    IN  r \notin touched[p] =>
          \E last \in same : /\ \A j \in same : j <= last
                             /\ library[r] = k.documents[last]

ImportOK(k, p) ==
  /\ k = [kind |-> "import", state |-> k.state, documents |-> k.documents, next |-> k.next,
          summary |-> k.summary]
  /\ Len(k.documents) \in Nat
  /\ \A i \in 1 .. Len(k.documents) : Valid(k.documents[i])
  /\ k.next \in 1 .. Len(k.documents) + 1
  /\ k.state = "done" => k.next = Len(k.documents) + 1
  /\ PrefixStored(k, p)

JobOK(p) ==
  job[p] # None => \/ job[p].kind = "export" /\ ExportOK(job[p], p)
                   \/ job[p].kind = "import" /\ ImportOK(job[p], p)

ExchangeInv ==
  /\ LibraryOK /\ FilesOK
  /\ touched \in [Processes -> SUBSET RunIds]
  /\ job = [p \in Processes |-> job[p]]
  /\ \A p \in Processes : JobOK(p)

(* A library found on disk holds valid documents.                          *)
LEMMA ExchangeInit == Init => ExchangeInv
<1> SUFFICES ASSUME Init PROVE ExchangeInv
  OBVIOUS
<1>1. LibraryOK
  BY ExchangeAssumption DEF Init, LibraryOK
<1>2. FilesOK
  BY DEF Init, FilesOK, Missing
<1>3. /\ touched \in [Processes -> SUBSET RunIds]
      /\ job = [p \in Processes |-> job[p]] /\ \A p \in Processes : job[p] = None
  BY DEF Init
<1>4. QED
  BY <1>1, <1>2, <1>3 DEF ExchangeInv, JobOK

(* The job of a process when others step: what they change they touch.     *)
LEMMA JobStays ==
  ASSUME NEW q \in Processes, JobOK(q), job'[q] = job[q],
         touched[q] \subseteq touched'[q],
         \A r \in RunIds : r \notin touched'[q] => library'[r] = library[r],
         q = Command => UNCHANGED files
  PROVE  JobOK(q)'
<1> SUFFICES ASSUME job[q] # None PROVE JobOK(q)'
  BY DEF JobOK
<1>k. PICK k : k = job[q] /\ k = job'[q]
  OBVIOUS
<1>1. CASE k.kind = "export"
  <2>1. /\ ExportOK(k, q) /\ \A i \in 1 .. Len(k.ids) : k.ids[i] \in RunIds
        /\ Len(k.ids) \in Nat
    <3>1. ExportOK(k, q)
      BY <1>1, <1>k DEF JobOK
    <3>2. k.ids \in Seq(RunIds)
      BY <3>1 DEF ExportOK
    <3>3. QED
      BY <3>1, <3>2
  <2>2. \A i \in 1 .. Len(k.ids) : Alone(k, q, i)' => Alone(k, q, i)
    BY DEF Alone
  <2>3. \A i \in 1 .. Len(k.ids) :
          k.ids[i] \notin touched'[q] =>
            k.ids[i] \notin touched[q] /\ library'[k.ids[i]] = library[k.ids[i]]
    BY <2>1
  <2>4. ASSUME NEW i \in 1 .. k.next - 1, Alone(k, q, i)'
        PROVE  /\ library'[k.ids[i]] # None
               /\ files'[<<FileName[k.ids[i]], k.format>>]
                    = Contents(k.format, library'[k.ids[i]])
    <3>1. i \in 1 .. Len(k.ids) /\ Alone(k, q, i) /\ UNCHANGED files
      BY <2>1, <2>2, <2>4 DEF ExportOK
    <3>2. library'[k.ids[i]] = library[k.ids[i]]
      BY <2>3, <2>4, <3>1 DEF Alone
    <3>3. QED
      BY <2>1, <3>1, <3>2 DEF ExportOK
  <2>5. ASSUME k.trace # None, k.ids[k.next] \notin touched'[q]
        PROVE  library'[k.ids[k.next]] = k.trace
    BY <2>1, <2>3, <2>5 DEF ExportOK
  <2>6. ExportOK(k, q)'
    BY <2>1, <2>4, <2>5 DEF ExportOK
  <2>7. QED
    BY <1>1, <1>k, <2>6 DEF JobOK
<1>2. CASE k.kind = "import"
  <2>1. /\ ImportOK(k, q) /\ \A i \in 1 .. Len(k.documents) : k.documents[i].run_id \in RunIds
    BY <1>2, <1>k DEF JobOK, ImportOK, Valid
  <2>2. \A i \in 1 .. Len(k.documents) :
          k.documents[i].run_id \notin touched'[q] =>
            /\ k.documents[i].run_id \notin touched[q]
            /\ library'[k.documents[i].run_id] = library[k.documents[i].run_id]
    BY <2>1
  <2>3. PrefixStored(k, q)'
    BY <2>1, <2>2 DEF ImportOK, PrefixStored
  <2>4. QED
    BY <1>2, <1>k, <2>1, <2>3 DEF JobOK, ImportOK
<1>3. QED
  BY <1>1, <1>2, <1>k DEF JobOK

(* Steps that change no run, no file and no job.                           *)
LEMMA NothingExchanged ==
  ASSUME ExchangeInv, UNCHANGED <<library, files, job, touched>>
  PROVE  ExchangeInv'
<1>1. LibraryOK' /\ FilesOK'
  BY DEF ExchangeInv, LibraryOK, FilesOK
<1>2. ASSUME NEW p \in Processes  PROVE JobOK(p)'
  BY JobStays DEF ExchangeInv
<1>3. QED
  BY <1>1, <1>2 DEF ExchangeInv

(* A job that begins. *)
LEMMA BeginsKeeps ==
  ASSUME ExchangeInv, NEW p \in Processes, NEW k, Begins(p, k),
         k # None => \/ k.kind = "export" /\ ExportOK(k, p)'
                     \/ k.kind = "import" /\ ImportOK(k, p)'
  PROVE  ExchangeInv'
<1>1. /\ job' = [job EXCEPT ![p] = k] /\ touched' = [touched EXCEPT ![p] = {}]
      /\ UNCHANGED <<library, files>>
  BY DEF Begins
<1>2. LibraryOK' /\ FilesOK'
  BY <1>1 DEF ExchangeInv, LibraryOK, FilesOK
<1>3. /\ job' = [q \in Processes |-> job'[q]] /\ job'[p] = k
      /\ \A q \in Processes \ {p} : job'[q] = job[q] /\ touched'[q] = touched[q]
      /\ touched' \in [Processes -> SUBSET RunIds]
  BY <1>1 DEF ExchangeInv
<1>4. ASSUME NEW q \in Processes \ {p}  PROVE JobOK(q)'
  BY <1>1, <1>3, JobStays DEF ExchangeInv
<1>5. JobOK(p)'
  BY <1>3 DEF JobOK
<1>6. QED
  BY <1>2, <1>3, <1>4, <1>5 DEF ExchangeInv

(* list_run_ids lists runs of the library.                                 *)
LEMMA StartExportKeeps ==
  ASSUME ExchangeInv, NEW format \in Formats, StartExport(format)
  PROVE  ExchangeInv'
<1>1. PICK ids \in SetToSeqs(StoredRuns) \cup {<<r>> : r \in RunIds} :
        Begins(Command, [kind |-> "export", state |-> "running", format |-> format,
                         ids |-> ids, next |-> 1, trace |-> None])
  BY DEF StartExport
<1>2. ids \in Seq(RunIds)
  <2>1. Cardinality(StoredRuns) \in Nat
    BY ExchangeAssumption, FS_Subset, FS_CardinalityType DEF StoredRuns
  <2>2. ASSUME ids \in SetToSeqs(StoredRuns)  PROVE ids \in Seq(RunIds)
    <3>1. ids \in [1 .. Cardinality(StoredRuns) -> StoredRuns]
      BY <2>2 DEF SetToSeqs
    <3>2. ids \in [1 .. Cardinality(StoredRuns) -> RunIds]
      BY <3>1 DEF StoredRuns
    <3>3. QED
      BY <2>1, <3>2
  <2>3. \A r \in RunIds : <<r>> \in Seq(RunIds)
    OBVIOUS
  <2>4. QED
    BY <2>2, <2>3
<1> DEFINE k == [kind |-> "export", state |-> "running", format |-> format,
                 ids |-> ids, next |-> 1, trace |-> None]
<1>3. ExportOK(k, Command)'
  BY <1>2 DEF ExportOK
<1>4. k.kind = "export" /\ Command \in Processes
  BY ExchangeAssumption
<1> HIDE DEF k
<1>5. QED
  BY <1>1, <1>3, <1>4, BeginsKeeps DEF k

(* An import starts with valid documents.                                  *)
LEMMA ImportBegins ==
  ASSUME ExchangeInv, NEW p \in Processes, NEW documents, NEW summary,
         Begins(p, ImportJob(documents, summary)),
         Len(documents) \in Nat, \A i \in 1 .. Len(documents) : Valid(documents[i])
  PROVE  ExchangeInv'
<1> DEFINE k == ImportJob(documents, summary)
<1>1. /\ k = [kind |-> "import", state |-> "running", documents |-> documents, next |-> 1,
              summary |-> summary]
      /\ k.kind = "import"
  BY DEF ImportJob
<1>2. ImportOK(k, p)'
  BY <1>1 DEF ImportOK, PrefixStored
<1> HIDE DEF k
<1>3. QED
  BY <1>1, <1>2, BeginsKeeps DEF k

(* As many documents as there are groups with spans.                       *)
LEMMA ParsedLength ==
  ASSUME NEW payload, IsFiniteSet(DOMAIN payload)
  PROVE  Len(parse_otlp_json(payload)) \in Nat
<1> DEFINE entries == {i \in DOMAIN payload : payload[i].spans # << >>}
           EntryAt(n) == CHOOSE i \in entries : Cardinality({j \in entries : j <= i}) = n
<1>1. Cardinality(entries) \in Nat
  BY FS_Subset, FS_CardinalityType
<1>2. parse_otlp_json(payload)
        = [n \in 1 .. Cardinality(entries) |-> _resource_spans_to_document(payload[EntryAt(n)])]
  BY DEF parse_otlp_json
<1> HIDE DEF entries, EntryAt
<1>3. QED
  BY <1>1, <1>2

(* What a readable file holds is valid.                                    *)
LEMMA StartImportKeeps ==
  ASSUME ExchangeInv, NEW name \in FileNames, StartImport(name)
  PROVE  ExchangeInv'
<1> DEFINE documents == DocumentsIn(files[name])
<1>1. /\ files[name].format = "json" => Valid(files[name].payload)
      /\ files[name].format = "otlp" => IsFiniteSet(DOMAIN files[name].payload)
      /\ Readable(files[name])
      /\ \E summary : Begins(Command, ImportJob(documents, summary))
  BY DEF ExchangeInv, FilesOK, StartImport
<1>2. Len(documents) \in Nat /\ \A i \in 1 .. Len(documents) : Valid(documents[i])
  <2>1. CASE files[name].format = "json"
    BY <1>1, <2>1 DEF DocumentsIn
  <2>2. CASE files[name].format = "otlp"
    BY <1>1, <2>2, ParsedLength DEF DocumentsIn, Readable, Parses
  <2>3. QED
    BY <1>1, <2>1, <2>2 DEF Readable
<1> HIDE DEF documents
<1>3. QED
  BY <1>1, <1>2, ImportBegins, ExchangeAssumption

(* So is what a payload is parsed to.                                      *)
LEMMA PostKeeps ==
  ASSUME ExchangeInv, NEW payload \in Payloads, Post(payload)
  PROVE  ExchangeInv'
BY ParsedLength, ImportBegins, ExchangeAssumption DEF Post, Parses

(* The process p goes on with its job, and no run is changed.              *)
LEMMA JobGoesOn ==
  ASSUME ExchangeInv, NEW p \in Processes, NEW k, job' = [job EXCEPT ![p] = k],
         UNCHANGED <<library, touched>>, FilesOK', p # Command => UNCHANGED files,
         k # None => \/ k.kind = "export" /\ ExportOK(k, p)'
                     \/ k.kind = "import" /\ ImportOK(k, p)'
  PROVE  ExchangeInv'
<1>1. LibraryOK'
  BY DEF ExchangeInv, LibraryOK
<1>2. /\ job' = [q \in Processes |-> job'[q]] /\ job'[p] = k
      /\ \A q \in Processes \ {p} : job'[q] = job[q]
      /\ touched' \in [Processes -> SUBSET RunIds]
  BY DEF ExchangeInv
<1>3. ASSUME NEW q \in Processes \ {p}  PROVE JobOK(q)'
  BY <1>2, JobStays DEF ExchangeInv
<1>4. JobOK(p)'
  BY <1>2 DEF JobOK
<1>5. QED
  BY <1>1, <1>2, <1>3, <1>4 DEF ExchangeInv

(* A job that ends keeps what it did; one that reports did everything.     *)
LEMMA EndsKeeps ==
  ASSUME ExchangeInv, NEW p \in Processes, Running(p), NEW state,
         job' = [job EXCEPT ![p].state = state], UNCHANGED <<library, files, touched>>,
         state = "done" => ~Pending(p)
  PROVE  ExchangeInv'
<1>0. PICK k : k = [job[p] EXCEPT !.state = state]
  OBVIOUS
<1>1. job' = [job EXCEPT ![p] = k]
  BY <1>0 DEF ExchangeInv
<1>2. FilesOK'
  BY DEF ExchangeInv, FilesOK
<1>3. \/ job[p].kind = "export" /\ ExportOK(job[p], p)
      \/ job[p].kind = "import" /\ ImportOK(job[p], p)
  BY DEF ExchangeInv, JobOK, Running
<1>4. ASSUME job[p].kind = "export", ExportOK(job[p], p)
      PROVE  k.kind = "export" /\ ExportOK(k, p)'
  <2>1. k = [kind |-> "export", state |-> state, format |-> job[p].format, ids |-> job[p].ids,
             next |-> job[p].next, trace |-> job[p].trace]
    BY <1>0, <1>4 DEF ExportOK
  <2>2. /\ k.kind = "export" /\ k.state = state /\ k.format = job[p].format
        /\ k.ids = job[p].ids /\ k.next = job[p].next /\ k.trace = job[p].trace
    BY <2>1
  <2>3. state = "done" => job[p].next = Len(job[p].ids) + 1
    BY <1>4 DEF Pending, ExportOK
  <2>4. \A i : Alone(k, p, i)' = Alone(job[p], p, i)
    BY <2>2 DEF Alone
  <2>5. QED
    BY <1>4, <2>1, <2>2, <2>3, <2>4 DEF ExportOK
<1>5. ASSUME job[p].kind = "import", ImportOK(job[p], p)
      PROVE  k.kind = "import" /\ ImportOK(k, p)'
  <2>1. k = [kind |-> "import", state |-> state, documents |-> job[p].documents,
             next |-> job[p].next, summary |-> job[p].summary]
    BY <1>0, <1>5 DEF ImportOK
  <2>2. /\ k.kind = "import" /\ k.state = state
        /\ k.documents = job[p].documents /\ k.next = job[p].next
    BY <2>1
  <2>3. state = "done" => job[p].next = Len(job[p].documents) + 1
    BY <1>5 DEF Pending, ImportOK
  <2>4. PrefixStored(k, p)'
    BY <1>5, <2>2 DEF ImportOK, PrefixStored
  <2>5. QED
    BY <1>5, <2>1, <2>2, <2>3, <2>4 DEF ImportOK
<1>6. QED
  BY <1>1, <1>2, <1>3, <1>4, <1>5, JobGoesOn

(* The run that was read is the run in the library.                        *)
LEMMA GetTraceKeeps == ExchangeInv /\ GetTrace => ExchangeInv'
<1> SUFFICES ASSUME ExchangeInv, GetTrace PROVE ExchangeInv'
  OBVIOUS
<1>0. /\ Command \in Processes
      /\ \E old, k : old = job[Command] /\ k = [old EXCEPT !.trace = library[ExportId]]
  BY ExchangeAssumption
<1>k. PICK old, k : old = job[Command] /\ k = [old EXCEPT !.trace = library[ExportId]]
  BY <1>0
<1>1. /\ job' = [job EXCEPT ![Command] = k] /\ UNCHANGED <<library, files, touched>>
      /\ old # None /\ old.kind = "export" /\ old.state = "running"
      /\ Pending(Command) /\ old.trace = None /\ library[ExportId] # None
  BY <1>0, <1>k DEF GetTrace, Exporting, Running, ExchangeInv
<1>2. FilesOK'
  BY <1>1 DEF ExchangeInv, FilesOK
<1>3. ExportOK(old, Command)
  BY <1>0, <1>1, <1>k DEF ExchangeInv, JobOK
<1>4. /\ old.next <= Len(old.ids) /\ ExportId = old.ids[old.next] /\ ExportId \in RunIds
      /\ Valid(library[ExportId])
  <2>1. old.next <= Len(old.ids)
    BY <1>1, <1>3, <1>k DEF Pending, ExportOK
  <2>2. old.ids \in Seq(RunIds) /\ old.next \in 1 .. Len(old.ids)
    BY <1>3, <2>1 DEF ExportOK
  <2>3. ExportId = old.ids[old.next] /\ ExportId \in RunIds
    BY <2>2, <1>k DEF ExportId
  <2>4. QED
    BY <1>1, <2>1, <2>3 DEF ExchangeInv, LibraryOK
<1>5. k = [kind |-> "export", state |-> "running", format |-> old.format, ids |-> old.ids,
           next |-> old.next, trace |-> library[ExportId]]
  BY <1>1, <1>3, <1>k DEF ExportOK
<1>6. /\ k.kind = "export" /\ k.state = "running" /\ k.format = old.format
      /\ k.ids = old.ids /\ k.next = old.next /\ k.trace = library[ExportId]
  BY <1>5
<1>7. \A i : Alone(k, Command, i)' = Alone(old, Command, i)
  BY <1>1, <1>6 DEF Alone
<1>8. ExportOK(k, Command)'
  BY <1>1, <1>3, <1>4, <1>5, <1>6, <1>7 DEF ExportOK
<1>9. QED
  BY <1>0, <1>1, <1>2, <1>6, <1>8, JobGoesOn

(* A file is written for one run more, over none of another run that is    *)
(* alone with its file name.                                               *)
LEMMA WriteExportKeeps == ExchangeInv /\ WriteExport => ExchangeInv'
<1> SUFFICES ASSUME ExchangeInv, WriteExport PROVE ExchangeInv'
  OBVIOUS
<1>0. /\ Command \in Processes
      /\ \E old, k : old = job[Command] /\ k = [old EXCEPT !.next = @ + 1, !.trace = None]
  BY ExchangeAssumption
<1>k. PICK old, k : old = job[Command] /\ k = [old EXCEPT !.next = @ + 1, !.trace = None]
  BY <1>0
<1> DEFINE file == <<FileName[old.ids[old.next]], old.format>>
<1>1. /\ job' = [job EXCEPT ![Command] = k] /\ UNCHANGED <<library, touched>>
      /\ files' = [files EXCEPT ![file] = Contents(old.format, old.trace)]
      /\ old # None /\ old.kind = "export" /\ old.state = "running" /\ old.trace # None
  BY <1>0, <1>k DEF WriteExport, Exporting, Running, ExchangeInv, ExportFile, ExportId
<1>2. ExportOK(old, Command)
  BY <1>0, <1>1, <1>k DEF ExchangeInv, JobOK
<1>3. /\ old.ids \in Seq(RunIds) /\ Len(old.ids) \in Nat /\ old.next \in 1 .. Len(old.ids)
      /\ old.format \in Formats /\ Valid(old.trace)
      /\ old.ids[old.next] \in RunIds
      /\ old.ids[old.next] \notin touched[Command] => library[old.ids[old.next]] = old.trace
  <2>1. /\ old.ids \in Seq(RunIds) /\ old.format \in Formats /\ Valid(old.trace)
        /\ old.next \in 1 .. Len(old.ids) + 1 /\ old.next <= Len(old.ids)
        /\ old.ids[old.next] \notin touched[Command] => library[old.ids[old.next]] = old.trace
    BY <1>1, <1>2 DEF ExportOK
  <2>2. QED
    BY <2>1
<1>4. k = [kind |-> "export", state |-> "running", format |-> old.format, ids |-> old.ids,
           next |-> old.next + 1, trace |-> None]
  BY <1>1, <1>2, <1>k DEF ExportOK
<1>5. /\ k.kind = "export" /\ k.state = "running" /\ k.format = old.format
      /\ k.ids = old.ids /\ k.next = old.next + 1 /\ k.trace = None
  BY <1>4
<1>6. /\ file \in FileNames
      /\ files' = [n \in FileNames |-> IF n = file THEN Contents(old.format, old.trace)
                                                   ELSE files[n]]
  BY <1>1, <1>3, ExchangeAssumption DEF ExchangeInv, FilesOK, FileNames
<1>7. FilesOK'
  <2>1. /\ Contents(old.format, old.trace).format = "json" =>
             Valid(Contents(old.format, old.trace).payload)
        /\ Contents(old.format, old.trace).format = "otlp" =>
             IsFiniteSet(DOMAIN Contents(old.format, old.trace).payload)
    <3>1. DOMAIN trace_to_otlp_json(old.trace) = {1}
      BY DEF trace_to_otlp_json
    <3>2. QED
      BY <1>3, <3>1, FS_Singleton DEF Contents
  <2>2. QED
    BY <1>6, <2>1 DEF ExchangeInv, FilesOK
<1>8. \A i : Alone(k, Command, i)' = Alone(old, Command, i)
  BY <1>1, <1>5 DEF Alone
<1>9. ASSUME NEW i \in 1 .. old.next, Alone(old, Command, i)
      PROVE  /\ library[old.ids[i]] # None
             /\ files'[<<FileName[old.ids[i]], old.format>>]
                  = Contents(old.format, library[old.ids[i]])
  <2>1. CASE i = old.next
    BY <1>1, <1>3, <1>6, <1>9, <2>1 DEF Alone
  <2>2. CASE i # old.next
    <3>1. /\ library[old.ids[i]] # None
          /\ files[<<FileName[old.ids[i]], old.format>>]
               = Contents(old.format, library[old.ids[i]])
      BY <1>2, <1>3, <1>9, <2>2 DEF ExportOK
    <3>2. FileName[old.ids[i]] # FileName[old.ids[old.next]]
      BY <1>3, <1>9, <2>2 DEF Alone
    <3>3. <<FileName[old.ids[i]], old.format>> \in FileNames
      <4>1. old.ids[i] \in RunIds
        BY <1>3
      <4>2. QED
        BY <1>3, <4>1 DEF FileNames
    <3>4. QED
      BY <1>6, <3>1, <3>2, <3>3
  <2>3. QED
    BY <2>1, <2>2
<1>10. ExportOK(k, Command)'
  BY <1>1, <1>3, <1>4, <1>5, <1>8, <1>9 DEF ExportOK
<1>11. QED
  BY <1>0, <1>1, <1>5, <1>7, <1>10, JobGoesOn

(* A file cut short belongs to the run whose export was being written.     *)
LEMMA TornKeeps ==
  ASSUME ExchangeInv, Exporting(Command), job[Command].trace # None,
         job' = [job EXCEPT ![Command].state = "failed"],
         files' = [files EXCEPT ![ExportFile] = Torn], UNCHANGED <<library, touched>>
  PROVE  ExchangeInv'
<1>0. /\ Command \in Processes
      /\ \E old, k : old = job[Command] /\ k = [old EXCEPT !.state = "failed"]
  BY ExchangeAssumption
<1>k. PICK old, k : old = job[Command] /\ k = [old EXCEPT !.state = "failed"]
  BY <1>0
<1> DEFINE file == <<FileName[old.ids[old.next]], old.format>>
<1>1. /\ job' = [job EXCEPT ![Command] = k] /\ files' = [files EXCEPT ![file] = Torn]
      /\ old # None /\ old.kind = "export" /\ old.trace # None
  BY <1>0, <1>k DEF Exporting, Running, ExchangeInv, ExportFile, ExportId
<1>2. ExportOK(old, Command)
  BY <1>0, <1>1, <1>k DEF ExchangeInv, JobOK
<1>3. /\ old.ids \in Seq(RunIds) /\ Len(old.ids) \in Nat /\ old.next \in 1 .. Len(old.ids)
      /\ old.format \in Formats /\ Valid(old.trace)
      /\ old.ids[old.next] \notin touched[Command] => library[old.ids[old.next]] = old.trace
  <2>1. /\ old.ids \in Seq(RunIds) /\ old.format \in Formats /\ Valid(old.trace)
        /\ old.next \in 1 .. Len(old.ids) + 1 /\ old.next <= Len(old.ids)
        /\ old.ids[old.next] \notin touched[Command] => library[old.ids[old.next]] = old.trace
    BY <1>1, <1>2 DEF ExportOK
  <2>2. QED
    BY <2>1
<1>4. k = [kind |-> "export", state |-> "failed", format |-> old.format, ids |-> old.ids,
           next |-> old.next, trace |-> old.trace]
  BY <1>1, <1>2, <1>k DEF ExportOK
<1>5. /\ k.kind = "export" /\ k.state = "failed" /\ k.format = old.format
      /\ k.ids = old.ids /\ k.next = old.next /\ k.trace = old.trace
  BY <1>4
<1>6. files' = [n \in FileNames |-> IF n = file THEN Torn ELSE files[n]]
  BY <1>1 DEF ExchangeInv, FilesOK
<1>7. FilesOK'
  BY <1>6 DEF ExchangeInv, FilesOK, Torn
<1>8. \A i : Alone(k, Command, i)' = Alone(old, Command, i)
  BY <1>5 DEF Alone
<1>9. ASSUME NEW i \in 1 .. old.next - 1, Alone(old, Command, i)
      PROVE  /\ library[old.ids[i]] # None
             /\ files'[<<FileName[old.ids[i]], old.format>>]
                  = Contents(old.format, library[old.ids[i]])
  <2>1. /\ library[old.ids[i]] # None
        /\ files[<<FileName[old.ids[i]], old.format>>]
             = Contents(old.format, library[old.ids[i]])
    BY <1>2, <1>9 DEF ExportOK
  <2>2. FileName[old.ids[i]] # FileName[old.ids[old.next]]
    BY <1>3, <1>9 DEF Alone
  <2>3. <<FileName[old.ids[i]], old.format>> \in FileNames
    <3>1. old.ids[i] \in RunIds
      BY <1>3
    <3>2. QED
      BY <1>3, <3>1 DEF FileNames
  <2>4. QED
    BY <1>6, <2>1, <2>2, <2>3
<1>10. ExportOK(k, Command)'
  BY <1>1, <1>3, <1>4, <1>5, <1>8, <1>9 DEF ExportOK
<1>11. QED
  BY <1>0, <1>1, <1>5, <1>7, <1>10, JobGoesOn

(* A job that fails.                                                       *)
LEMMA FailureKeeps ==
  ASSUME ExchangeInv, NEW p \in Processes, Running(p),
         job' = [job EXCEPT ![p].state = "failed"], UNCHANGED <<library, files, touched>>
  PROVE  ExchangeInv'
<1>1. PICK state : state = "failed"
  OBVIOUS
<1>2. job' = [job EXCEPT ![p].state = state] /\ state # "done"
  BY <1>1
<1>3. QED
  BY <1>2, EndsKeeps

(* A process that is killed.                                               *)
LEMMA KilledKeeps ==
  ASSUME ExchangeInv, NEW p \in Processes, Killed(p)
  PROVE  ExchangeInv'
<1>1. CASE Running(p) /\ UNCHANGED files
  BY <1>1, FailureKeeps DEF Killed
<1>2. CASE ~Running(p) /\ UNCHANGED files
  BY <1>2, NothingExchanged DEF Killed
<1>3. CASE ~UNCHANGED files
  BY <1>3, TornKeeps DEF Killed, Exporting
<1>4. QED
  BY <1>1, <1>2, <1>3

(* One run is stored or pruned. *)
LEMMA OneRun ==
  ASSUME ExchangeInv, NEW r \in RunIds, NEW d, d # None => Valid(d),
         library' = [library EXCEPT ![r] = d], UNCHANGED files
  PROVE  /\ LibraryOK' /\ FilesOK' /\ library'[r] = d
         /\ \A s \in RunIds : s # r => library'[s] = library[s]
<1>1. library' = [s \in RunIds |-> IF s = r THEN d ELSE library[s]]
  BY DEF ExchangeInv, LibraryOK
<1>2. FilesOK'
  BY DEF ExchangeInv, FilesOK
<1>3. QED
  BY <1>1, <1>2 DEF ExchangeInv, LibraryOK

(* Others store or prune a run, and every job takes note.                  *)
LEMMA OthersKeep ==
  ASSUME ExchangeInv, NEW r \in RunIds, NEW d, d # None => Valid(d),
         library' = [library EXCEPT ![r] = d], UNCHANGED <<files, job>>,
         touched' = [q \in Processes |-> touched[q] \cup {r}]
  PROVE  ExchangeInv'
<1>1. /\ LibraryOK' /\ FilesOK'
      /\ \A s \in RunIds : s # r => library'[s] = library[s]
  BY OneRun
<1>2. ASSUME NEW q \in Processes  PROVE JobOK(q)'
  <2>1. touched[q] \subseteq touched'[q] /\ r \in touched'[q]
    OBVIOUS
  <2>2. QED
    BY <1>1, <2>1, JobStays DEF ExchangeInv
<1>3. touched' \in [Processes -> SUBSET RunIds]
  BY DEF ExchangeInv
<1>4. QED
  BY <1>1, <1>2, <1>3 DEF ExchangeInv

(* The next document of an import is the last one with its run ID so far.  *)
LEMMA IngestNextKeeps ==
  ASSUME ExchangeInv, NEW p \in Processes, IngestNext(p)
  PROVE  ExchangeInv'
<1>0. \E old, k : /\ old = job[p]
                  /\ k = [old EXCEPT !.next = @ + 1,
                                     !.summary = IF @ = "made" THEN "due" ELSE @]
  OBVIOUS
<1>k. PICK old, k : /\ old = job[p]
                    /\ k = [old EXCEPT !.next = @ + 1,
                                       !.summary = IF @ = "made" THEN "due" ELSE @]
  BY <1>0
<1> DEFINE d == old.documents[old.next]
<1>1. /\ job' = [job EXCEPT ![p] = k] /\ UNCHANGED files
      /\ library' = [library EXCEPT ![d.run_id] = d] /\ Touching(p, {d.run_id})
      /\ old # None /\ old.kind = "import" /\ old.state = "running"
      /\ old.next <= Len(old.documents)
  BY <1>k DEF IngestNext, Importing, Running, Pending, ExchangeInv
<1>2. ImportOK(old, p)
  BY <1>1, <1>k DEF ExchangeInv, JobOK
<1>3. /\ Len(old.documents) \in Nat /\ old.next \in 1 .. Len(old.documents)
      /\ \A i \in 1 .. Len(old.documents) : Valid(old.documents[i])
      /\ PrefixStored(old, p)
  BY <1>1, <1>2 DEF ImportOK
<1>4. k = [kind |-> "import", state |-> "running", documents |-> old.documents,
           next |-> old.next + 1, summary |-> k.summary]
  BY <1>1, <1>2, <1>k DEF ImportOK
<1>5. /\ k.kind = "import" /\ k.state = "running"
      /\ k.documents = old.documents /\ k.next = old.next + 1
  BY <1>4
<1>6. Valid(d) /\ d.run_id \in RunIds
  BY <1>3 DEF Valid
<1>7. /\ LibraryOK' /\ FilesOK' /\ library'[d.run_id] = d
      /\ \A s \in RunIds : s # d.run_id => library'[s] = library[s]
  BY <1>1, <1>6, OneRun
<1>8. /\ touched' \in [Processes -> SUBSET RunIds] /\ touched'[p] = touched[p]
      /\ \A q \in Processes \ {p} : touched'[q] = touched[q] \cup {d.run_id}
  BY <1>1, <1>6 DEF Touching, ExchangeInv
<1>9. PrefixStored(k, p)'
  <2> SUFFICES ASSUME NEW i \in 1 .. old.next, old.documents[i].run_id \notin touched[p]
               PROVE  \E last \in 1 .. old.next :
                        /\ old.documents[last].run_id = old.documents[i].run_id
                        /\ \A j \in 1 .. old.next :
                             old.documents[j].run_id = old.documents[i].run_id => j <= last
                        /\ library'[old.documents[i].run_id] = old.documents[last]
    BY <1>3, <1>5, <1>8 DEF PrefixStored
  <2> DEFINE r == old.documents[i].run_id
  <2>1. CASE r = d.run_id
    BY <1>3, <1>7, <2>1
  <2>2. CASE r # d.run_id
    <3>1. i \in 1 .. old.next - 1 /\ r \in RunIds
      BY <1>3, <2>2 DEF Valid
    <3>2. PICK last \in 1 .. old.next - 1 :
            /\ old.documents[last].run_id = r
            /\ \A j \in 1 .. old.next - 1 : old.documents[j].run_id = r => j <= last
            /\ library[r] = old.documents[last]
      BY <1>3, <3>1 DEF PrefixStored
    <3>3. \A j \in 1 .. old.next : old.documents[j].run_id = r => j <= last
      BY <1>3, <2>2, <3>2
    <3>4. QED
      BY <1>3, <1>7, <2>2, <3>1, <3>2, <3>3
  <2>3. QED
    BY <2>1, <2>2
<1>10. ImportOK(k, p)'
  BY <1>3, <1>4, <1>5, <1>9 DEF ImportOK
<1>11. JobOK(p)' /\ job' = [q \in Processes |-> job'[q]]
  BY <1>1, <1>5, <1>10 DEF JobOK, ExchangeInv
<1>12. ASSUME NEW q \in Processes \ {p}  PROVE JobOK(q)'
  <2>1. /\ job'[q] = job[q] /\ touched[q] \subseteq touched'[q] /\ d.run_id \in touched'[q]
    BY <1>1, <1>8 DEF ExchangeInv
  <2>2. QED
    BY <1>1, <1>7, <2>1, JobStays DEF ExchangeInv
<1>13. QED
  BY <1>7, <1>8, <1>11, <1>12 DEF ExchangeInv

(* A summary changes neither what is stored nor how far the import is.     *)
LEMMA MakeSummaryKeeps ==
  ASSUME ExchangeInv, NEW p \in Processes, MakeSummary(p)
  PROVE  ExchangeInv'
<1>0. \E old, k : old = job[p] /\ k = [old EXCEPT !.summary = "made"]
  OBVIOUS
<1>k. PICK old, k : old = job[p] /\ k = [old EXCEPT !.summary = "made"]
  BY <1>0
<1>1. /\ job' = [job EXCEPT ![p] = k] /\ UNCHANGED <<library, files, touched>>
      /\ old # None /\ old.kind = "import"
  BY <1>k DEF MakeSummary, SummaryDue, Importing, Running, ExchangeInv
<1>2. ImportOK(old, p)
  BY <1>1, <1>k DEF ExchangeInv, JobOK
<1>3. k = [kind |-> "import", state |-> old.state, documents |-> old.documents,
           next |-> old.next, summary |-> "made"]
  BY <1>2, <1>k DEF ImportOK
<1>4. /\ k.kind = "import" /\ k.state = old.state /\ k.documents = old.documents
      /\ k.next = old.next /\ k.summary = "made"
  BY <1>3
<1>5. PrefixStored(k, p)'
  BY <1>1, <1>2, <1>4 DEF ImportOK, PrefixStored
<1>6. ImportOK(k, p)'
  BY <1>2, <1>3, <1>4, <1>5 DEF ImportOK
<1>7. FilesOK'
  BY <1>1 DEF ExchangeInv, FilesOK
<1>8. QED
  BY <1>1, <1>4, <1>6, <1>7, JobGoesOn

(* Every step.                                                             *)
LEMMA ExchangeNext == ExchangeInv /\ [Next]_exchangeVars => ExchangeInv'
<1> SUFFICES ASSUME ExchangeInv, [Next]_exchangeVars PROVE ExchangeInv'
  OBVIOUS
<1>1. ASSUME NEW p \in Processes, Open(p)  PROVE ExchangeInv'
  BY <1>1, NothingExchanged DEF Open
<1>2. ASSUME NEW p \in Processes, IngestNext(p)  PROVE ExchangeInv'
  BY <1>2, IngestNextKeeps
<1>3. ASSUME NEW p \in Processes, IngestLocked(p)  PROVE ExchangeInv'
  BY <1>3, FailureKeeps DEF IngestLocked, Importing, Ends
<1>4. ASSUME NEW p \in Processes, Report(p)  PROVE ExchangeInv'
  BY <1>4, EndsKeeps DEF Report, Ends
<1>5. ASSUME NEW p \in Processes, Killed(p)  PROVE ExchangeInv'
  BY <1>5, KilledKeeps
<1>6. ASSUME NEW format \in Formats, StartExport(format)  PROVE ExchangeInv'
  BY <1>6, StartExportKeeps
<1>7. CASE GetTrace
  BY <1>7, GetTraceKeeps
<1>8. CASE RunNotFound
  BY <1>8, FailureKeeps, ExchangeAssumption DEF RunNotFound, Exporting, Ends
<1>9. CASE WriteExport
  BY <1>9, WriteExportKeeps
<1>10. ASSUME NEW name \in FileNames, StartImport(name)  PROVE ExchangeInv'
  BY <1>10, StartImportKeeps
<1>11. ASSUME NEW payload \in Payloads, Post(payload)  PROVE ExchangeInv'
  BY <1>11, PostKeeps
<1>12. ASSUME NEW d \in Documents, Record(d)  PROVE ExchangeInv'
  <2>1. Valid(d) /\ d.run_id \in RunIds
    BY ExchangeAssumption DEF Valid
  <2>2. QED
    BY <1>12, <2>1, OthersKeep DEF Record
<1>13. ASSUME NEW r \in RunIds, Prune(r)  PROVE ExchangeInv'
  BY <1>13, OthersKeep DEF Prune
<1>14. CASE Rest \/ UNCHANGED exchangeVars
  BY <1>14, NothingExchanged DEF Rest, exchangeVars
<1>16. ASSUME NEW p \in Processes, MakeSummary(p)  PROVE ExchangeInv'
  BY <1>16, MakeSummaryKeeps
<1>17. ASSUME NEW p \in Processes, SummaryFails(p)  PROVE ExchangeInv'
  BY <1>17, FailureKeeps DEF SummaryFails, SummaryDue, Importing, Ends
<1>15. QED
  BY <1>1, <1>2, <1>3, <1>4, <1>5, <1>6, <1>7, <1>8, <1>9, <1>10, <1>11, <1>12, <1>13, <1>14,
     <1>16, <1>17
  DEF Next

(* The library and the files hold valid documents, an export keeps up with *)
(* the runs nobody touches, and an import with its documents.              *)
THEOREM ExchangeInvariance == Spec => []ExchangeInv
BY ExchangeInit, ExchangeNext, PTL DEF Spec

(* README.md:926: whatever run the command exports, what an import would   *)
(* read back is valid, compares as the same run call by call, errors too,  *)
(* has the same status, spans and parents, and from then on comes back as  *)
(* it is, but for values of attributes that are not settled.               *)
THEOREM RoundTripsAlwaysKeepEvidence == Spec => []RoundTripsKeepEvidence
<1>1. ExchangeInv => RoundTripsKeepEvidence
  <2> SUFFICES ASSUME ExchangeInv, Exporting(Command), job[Command].trace # None,
                      Regular(job[Command].trace)
               PROVE  KeepsEvidence(job[Command].trace)
    BY DEF RoundTripsKeepEvidence
  <2>1. Valid(job[Command].trace)
    BY ExchangeAssumption DEF ExchangeInv, JobOK, ExportOK, Exporting, Running
  <2>2. QED
    BY <2>1, RoundTripKeeps
<1>2. QED
  BY <1>1, ExchangeInvariance, PTL

(* README.md:917: a finished export has written a file for each run nobody *)
(* touched, and the import of that file would store the run again; however *)
(* many runs and whatever processes are killed.                            *)
THEOREM ExportsAlwaysComeBack == Spec => []ExportsComeBack
<1>1. ExchangeInv => ExportsComeBack
  <2> DEFINE k == job[Command]
  <2> SUFFICES ASSUME ExchangeInv, k # None, k.kind = "export", k.state = "done",
                      NEW i \in 1 .. Len(k.ids), k.ids[i] \notin touched[Command],
                      Regular(library[k.ids[i]]),
                      \A j \in 1 .. Len(k.ids) \ {i} : FileName[k.ids[j]] # FileName[k.ids[i]]
               PROVE  LET file == files[<<FileName[k.ids[i]], k.format>>]
                      IN  /\ Readable(file)
                          /\ DocumentsIn(file) =
                               <<IF file.format = "json" THEN library[k.ids[i]]
                                                         ELSE RoundTrip(library[k.ids[i]])>>
    BY DEF ExportsComeBack
  <2>1. ExportOK(k, Command)
    BY ExchangeAssumption DEF ExchangeInv, JobOK
  <2>p. PICK d, file : d = library[k.ids[i]] /\ file = files[<<FileName[k.ids[i]], k.format>>]
    OBVIOUS
  <2>2. d # None /\ file = Contents(k.format, d) /\ k.format \in {"json", "otlp"}
    <3>1. i \in 1 .. k.next - 1
      BY <2>1 DEF ExportOK
    <3>2. QED
      BY <2>1, <2>p, <3>1, ExchangeAssumption DEF ExportOK, Alone
  <2>3. Valid(d) /\ Regular(d)
    <3>1. k.ids[i] \in RunIds
      <4>1. k.ids \in Seq(RunIds)
        BY <2>1 DEF ExportOK
      <4>2. QED
        BY <4>1
    <3>2. QED
      BY <2>2, <2>p, <3>1 DEF ExchangeInv, LibraryOK
  <2>4. CASE k.format = "json"
    BY <2>2, <2>4, <2>p DEF Contents, Readable, DocumentsIn
  <2>5. CASE k.format = "otlp"
    <3>1. Parses(trace_to_otlp_json(d)) /\ parse_otlp_json(trace_to_otlp_json(d)) = <<RoundTrip(d)>>
      BY <2>3, RoundTripKeeps DEF KeepsEvidence
    <3>2. QED
      BY <2>2, <2>5, <2>p, <3>1 DEF Contents, Readable, DocumentsIn
  <2>6. QED
    BY <2>2, <2>4, <2>5
<1>2. QED
  BY <1>1, ExchangeInvariance, PTL

(* main.py:571 and README.md:890: at any moment an import has stored a     *)
(* prefix of its documents, and all of them when it reports.               *)
THEOREM ImportsAlwaysApplyAPrefix == Spec => []ImportsApplyAPrefix
<1>1. ExchangeInv => ImportsApplyAPrefix
  <2> SUFFICES ASSUME ExchangeInv, NEW p \in Processes, job[p] # None, job[p].kind = "import"
               PROVE  PrefixStored(job[p], p) /\ (job[p].state = "done" => ~Pending(p))
    BY DEF ImportsApplyAPrefix, PrefixStored
  <2>1. ImportOK(job[p], p)
    BY DEF ExchangeInv, JobOK
  <2>2. QED
    BY <2>1 DEF ImportOK, Pending
<1>2. QED
  BY <1>1, ExchangeInvariance, PTL
=============================================================================
