------------------------------- MODULE MCSweeps -------------------------------
(* Instances of Sweeps for TLC: two sweepers on a library whose runs are   *)
(* ingested, labeled and compared meanwhile.                               *)
EXTENDS Sweeps, TLC

CONSTANTS t1, s1, s2

MCSpansOf == [t \in Traces |-> IF t = t1 THEN {s1} ELSE {s1, s2}]
MCBundled == {}

Symmetry == Permutations(Sweepers) \cup Permutations(RunIds)
=============================================================================
