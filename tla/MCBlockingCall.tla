--------------------------- MODULE MCBlockingCall ---------------------------
(* Instances of BlockingCall for TLC. *)
EXTENDS BlockingCallRefinement, TLC

(* The callers are interchangeable: they are only compared for equality. *)
CallerSymmetry == Permutations(Callers)
=============================================================================
