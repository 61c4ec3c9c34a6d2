----------------------------- MODULE TaskLists -----------------------------
(***************************************************************************)
(* TaskList (src/include/acrtos/task.hpp, src/src/task.cpp): the intrusive *)
(* doubly linked list that holds the ready tasks of one priority or the    *)
(* waiters of one IPC object.  A list is the sequence of its tasks, head   *)
(* first; the links themselves are the subject of module TcbHeap,          *)
(* which is checked to implement these operators.                          *)
(***************************************************************************)
EXTENDS Naturals, Sequences, FiniteSets, SequencesExt

\* TaskList::push_back: the task becomes the tail.
push_back(s, t) == Append(s, t)

\* Where a search from the head stops that looks for a task in S: at the first
\* one, or one past the tail.
slot(s, S) ==
    CHOOSE i \in 1..(Len(s) + 1) :
        /\ \A j \in 1..(i - 1) : s[j] \notin S
        /\ i <= Len(s) => s[i] \in S

\* Mutant of insert_by_priority: the newcomer goes to the tail.
insert_last(s, t, prio) == Append(s, t)

\* TaskList::insert_by_priority: before the first task of lower priority.
insert_by_priority(s, t, prio) ==
    InsertAt(s, slot(s, {u \in Range(s) : prio[u] < prio[t]}), t)

\* TaskList::pop_front: the head leaves; on an empty list nothing happens.
pop_front(s) == IF s = <<>> THEN <<>> ELSE Tail(s)

\* TaskList::remove: unlink t.  A task that is in no list has two null links,
\* and unlinking it sets head and tail to null: the whole list is lost.
remove(s, t) ==
    IF t \in Range(s) THEN RemoveAt(s, CHOOSE i \in DOMAIN s : s[i] = t)
                      ELSE <<>>

\* How many of the first i tasks of s are in S.
rank(s, S, i) == Cardinality({j \in 1..i : s[j] \in S})

\* The tasks of s that are in S, in the order of s: what is left of a list,
\* or what is collected from it, by a loop that unlinks tasks one by one.
Only(s, S) ==
    [n \in 1..rank(s, S, Len(s)) |->
        s[CHOOSE i \in DOMAIN s : s[i] \in S /\ rank(s, S, i) = n]]
=============================================================================
