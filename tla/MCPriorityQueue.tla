-------------------------- MODULE MCPriorityQueue --------------------------
(* Four elements, two keys that have a bucket and two that have not.         *)
EXTENDS PriorityQueue, TLC

MCKey == 0..3

(* No element is told from another, and all properties are about steps.      *)
Symmetry == Permutations(Elem)
=============================================================================
