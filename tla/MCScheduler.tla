----------------------------- MODULE MCScheduler -----------------------------
(* Instances of Scheduler for TLC. *)
EXTENDS Scheduler, TLC

CONSTANTS t1, s1, s2

MCSpansOf == [t \in Traces |-> IF t = t1 THEN {s1} ELSE {s1, s2}]
MCBundled == {}

Symmetry == Permutations(Sweepers)
=============================================================================
