------------------------------ MODULE MCQueue ------------------------------
(***************************************************************************)
(* A small instance of Queue.                                              *)
(***************************************************************************)
EXTENDS Queue

CONSTANTS a, b, x, y

\* b has the priority of a, or a higher one.
TwoLevels ==
    [t \in Task |-> CASE t = Idle -> {0} [] t = b -> {1, 2} [] OTHER -> {1}]

ItemSymmetry == Permutations(Item)
=============================================================================
