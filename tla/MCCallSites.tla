---------------------------- MODULE MCCallSites ----------------------------
(***************************************************************************)
(* A small instance of CallSites.                                          *)
(***************************************************************************)
EXTENDS CallSites

CONSTANTS a, b, c, e, s1

OnePriority == [t \in Task |-> IF t = Idle THEN {0} ELSE {1}]
=============================================================================
