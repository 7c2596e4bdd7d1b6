---------------------------- MODULE MCDiscovery ----------------------------
(* Instances of Discovery with two columns of two shapes: a step from one  *)
(* to the other is an incompatible type with either change of nullability, *)
(* and string to integer is an override that may be refused.               *)
EXTENDS Discovery, TLC

CONSTANTS f, g, d1, d2

MCShape == {[type |-> "integer", nullable |-> FALSE],
            [type |-> "string", nullable |-> TRUE]}

Symmetry == Permutations(Field) \union Permutations(Decider)
=============================================================================
