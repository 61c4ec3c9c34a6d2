---------------------------- MODULE MCScheduler ----------------------------
(***************************************************************************)
(* Small instances of Scheduler, without IPC objects.                      *)
(***************************************************************************)
EXTENDS Scheduler

CONSTANTS a, b, c, e

\* Application tasks of either of two priorities; idle has priority 0.
AnyPriority == [t \in Task |-> IF t = Idle THEN {0} ELSE Priorities]

\* a beside idle, the others above.
OneBesideIdle == [t \in Task |-> IF t \in {a, Idle} THEN {0} ELSE {1}]

AboveSymmetry == Permutations(Task \ {a, Idle})
=============================================================================
