---------------------------- MODULE MCSemaphore ----------------------------
(***************************************************************************)
(* Small instances of Semaphore.                                           *)
(***************************************************************************)
EXTENDS Semaphore

CONSTANTS a, b

\* a may have either priority, b the lower one.
TwoPriorities ==
    [t \in Task |-> CASE t = Idle -> {0} [] t = a -> {1, 2} [] OTHER -> {1}]
=============================================================================
