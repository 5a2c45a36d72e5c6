----------------------------- MODULE MCLibraryReport ---------------------------
(* An instance of LibraryReport for TLC. *)
EXTENDS LibraryReport, TLC

CONSTANTS r1, r2, t1, t2, s1, s2, golden, accepted, bot, helper

MCSpansOf == (t1 :> {s1}) @@ (t2 :> {s1, s2})
MCStartedAt == (t1 :> 0) @@ (t2 :> 1)
MCIdOrder == (r1 :> 1) @@ (r2 :> 2)
MCAgentOf == (t1 :> bot) @@ (t2 :> helper)

(* One trace was posted, the other watched in a folder.                    *)
MCSourceOf == (t1 :> "") @@ (t2 :> "inbox")
MCFolderOf == ("" :> "api") @@ ("inbox" :> "inbox")

(* The bundle of README.md:949: labeled and accepted, with no history.     *)
MCBundled ==
  {[label |-> golden, decision |-> accepted, decision_at |-> TRUE,
    decision_history |-> << >>]}
=============================================================================
