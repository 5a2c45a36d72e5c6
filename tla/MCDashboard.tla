------------------------------ MODULE MCDashboard ------------------------------
(* An instance of Dashboard for TLC: days of two ticks.  Trace t1 started  *)
(* on day 0 half a day behind UTC, so that it is dated day -1; t2 half a   *)
(* day ahead on day -1, dated day 0.                                       *)
EXTENDS Dashboard, TLC

CONSTANTS r1, r2, t1, t2, t3, s1, s2, s3, bot, helper

MCSpansOf == (t1 :> {s1}) @@ (t2 :> {s1, s2}) @@ (t3 :> {s3})
MCAgentOf == (t1 :> bot) @@ (t2 :> helper) @@ (t3 :> bot)
MCStartedAt == (t1 :> 0) @@ (t2 :> -1) @@ (t3 :> -1)
MCOffsetOf == (t1 :> -1) @@ (t2 :> 1) @@ (t3 :> 0)
MCIdOrder == (r1 :> 1) @@ (r2 :> 2)
MCMatching == [q \in {"bot"} |-> {t1, t3}]

(* Both windows, every filter, overlay and day, and a search.             *)
MCRequests ==
  [query : {None}, days : {1, 2}, agent : {None, bot}, compare : {None, helper}, day : {None, -1, 0}]
    \cup {[query |-> "bot", days |-> 2, agent |-> helper, compare |-> bot, day |-> 0]}
=============================================================================
