----------------------------- MODULE MCEvaluation -----------------------------
(* An instance of Evaluation for TLC. *)
EXTENDS Evaluation, TLC

CONSTANTS search, reserve, sku, qty, int1, float1, expired

(* 1 and 1.0 are equal. *)
MCValueOf == (int1 :> 1) @@ (float1 :> 1) @@ (Null :> 0)

Args == (sku :> int1) @@ (qty :> int1)

Call(name, arguments, result, outcome, error) ==
  [name |-> name, arguments |-> arguments, result |-> result,
   outcome |-> outcome, error |-> error]

(* A call, calls that differ from it in some key of the arguments or of    *)
(* the result, by a null, a missing key or another text; one failed.       *)
MCRecorded ==
  {Call(search, Args, Args, "success", None),
   Call(search, Args, (sku :> float1) @@ (qty :> Null), "success", None),
   Call(search, (sku :> Null) @@ (qty :> int1), Args, "success", None),
   Call(search, qty :> int1, sku :> int1, "success", None),
   Call(reserve, sku :> float1, Null, "failure", expired)}
=============================================================================
