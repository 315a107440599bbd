---------------------------- MODULE MCTransport ----------------------------
(* Instances of Transport for TLC. *)
EXTENDS Transport

Shape(a, b) == [array |-> a, body |-> b]

(* Nothing after the fixed part, an array only, a body only, both, too much, *)
(* and a body of 2^31 or more that makes the sum of the lengths short.      *)
SmallShapes == {Shape(0, 0), Shape(2, 0), Shape(0, 2), Shape(1, 1),
                Shape(1, 2), Shape(1, 5)}
LongShapes == {Shape(1, 1), Shape(1, 2)}
=============================================================================
