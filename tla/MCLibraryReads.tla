---------------------------- MODULE MCLibraryReads ----------------------------
(* Instances of LibraryReads for TLC: one reader beside one or two writing *)
(* clients.  Trace t1 has one span, the other traces two.                  *)
EXTENDS LibraryReads, TLC

CONSTANTS t1, s1, s2, golden, accepted

MCSpansOf == [t \in Traces |-> IF t = t1 THEN {s1} ELSE {s1, s2}]

(* A bundle of an accepted run. *)
MCBundled ==
  {[label |-> NoLabel, decision |-> accepted, decision_at |-> TRUE,
    decision_history |-> <<[previous_decision |-> Pending, decision |-> accepted]>>]}
=============================================================================
