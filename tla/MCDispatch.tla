----------------------------- MODULE MCDispatch -----------------------------
(* Instances of Dispatch for TLC: the constants are all given in the cfgs. *)
EXTENDS Dispatch
=============================================================================
