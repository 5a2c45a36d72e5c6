------------------------------ MODULE MCCollector ------------------------------
(* An instance of Collector for TLC; no symmetry, for liveness.            *)
EXTENDS Collector, TLC
=============================================================================
