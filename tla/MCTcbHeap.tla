----------------------------- MODULE MCTcbHeap -----------------------------
(***************************************************************************)
(* A small instance of TcbHeap.                                            *)
(***************************************************************************)
EXTENDS TcbHeap, TLC

CONSTANTS a, b, c, l1

TaskSymmetry == Permutations(Task)
=============================================================================
