---------------------------- MODULE MCEventGroup ----------------------------
(***************************************************************************)
(* A small instance of EventGroup.                                         *)
(***************************************************************************)
EXTENDS EventGroup

CONSTANTS a, b, c, A, B

\* b is above a and c, which are equal.
TwoLevels ==
    [t \in Task |-> CASE t = Idle -> {0} [] t = b -> {2} [] OTHER -> {1}]

\* Any and all of both bits, taken away or not.
SomeRequests ==
    {[mask |-> {A, B}, all |-> FALSE, clear |-> TRUE],
     [mask |-> {A, B}, all |-> TRUE, clear |-> FALSE],
     [mask |-> {A}, all |-> FALSE, clear |-> TRUE]}
=============================================================================
