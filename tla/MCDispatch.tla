----------------------------- MODULE MCDispatch -----------------------------
(* Instances of Dispatch for TLC. *)
EXTENDS Dispatch, TLC
CONSTANTS w1, w2
(* One worker of the first group (weight -1) and one of the second (0). *)
MCWeight == (w1 :> -1) @@ (w2 :> 0)
=============================================================================
