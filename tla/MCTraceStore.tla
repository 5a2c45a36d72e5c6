----------------------------- MODULE MCTraceStore -----------------------------
(* Instances of TraceStore for TLC.  The .cfg files choose how many runs   *)
(* and clients there are and which operations the clients call.            *)
EXTENDS TraceStore, TLC

CONSTANTS t1, s1, s2, golden, accepted

MCSpansOf == [t \in Traces |-> IF t = t1 THEN {s1} ELSE {s1, s2}]

(* The bundle of README.md:949: a labeled, accepted run with no history.   *)
MCBundled ==
  {[label |-> golden, decision |-> accepted, decision_at |-> TRUE,
    decision_history |-> << >>]}

Symmetry == Permutations(RunIds) \cup Permutations(Clients)
=============================================================================
