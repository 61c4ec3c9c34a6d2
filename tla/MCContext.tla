----------------------------- MODULE MCContext -----------------------------
(***************************************************************************)
(* A small instance of Context.                                            *)
(***************************************************************************)
EXTENDS Context

CONSTANTS a, b

\* Equal tasks above idle: they switch at ticks, sleeps, creation and deletion.
OnePriority == [t \in Task |-> IF t = Idle THEN {0} ELSE {1}]

AppSymmetry == Permutations(Task \ {Idle})
=============================================================================
