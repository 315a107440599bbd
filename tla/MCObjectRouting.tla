-------------------------- MODULE MCObjectRouting --------------------------
(* Instances of ObjectRouting for TLC: the constants are all given in the   *)
(* cfgs.                                                                    *)
EXTENDS ObjectRouting
=============================================================================
