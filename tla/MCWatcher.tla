------------------------------ MODULE MCWatcher ------------------------------
(* Instances of Watcher for TLC: documents d1 and d2 carry the same run.   *)
EXTENDS Watcher, TLC

CONSTANTS d1, d2, d3, r1, r2

MCRunOf == [d \in Documents |-> IF d = d3 THEN r2 ELSE r1]
=============================================================================
