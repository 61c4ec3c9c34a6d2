------------------------------ MODULE MCMutex ------------------------------
(***************************************************************************)
(* Small instances of Mutex.                                               *)
(***************************************************************************)
EXTENDS Mutex

CONSTANTS a, b, c, m1, m2

\* One task of each priority: a low, b medium, c high.
LowMediumHigh ==
    [t \in Task |-> CASE t = Idle -> {0} [] t = a -> {1}
                      [] t = b -> {2} [] OTHER -> {3}]

MutexSymmetry == Permutations(Lists)
=============================================================================
