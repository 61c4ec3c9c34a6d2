----------------------------- MODULE CallSites -----------------------------
(***************************************************************************)
(* The create_task template (src/include/acrtos/scheduler.hpp) around      *)
(* create_task_impl.  Every place in the source that calls it has a stack  *)
(* of its own and a flag is_created, which is tested and set outside any   *)
(* critical section.  Tasks may come to the same place.                    *)
(***************************************************************************)
EXTENDS Scheduler

CONSTANTS
    Site,    \* places in the code of the tasks that call create_task
    NoSite   \* any other place; main() and start() use each of theirs once

VARIABLES
    is_created,   \* the sites whose flag is set
    site,         \* per task, the site it is in create_task at, or NoSite
    stack_base    \* per task, the site whose storage is its stack

sitevars == <<svars, is_created, site, stack_base>>

SiteInit ==
    /\ SchedInit
    /\ is_created = {}
    /\ site = [t \in Task |-> NoSite]
    /\ stack_base = [t \in Task |-> NoSite]

\* The assert on is_created ...
test_created(t, s) ==
    /\ Calls(t, "create_task")
    /\ IF s \in is_created
       THEN AssertFails("call site reached twice") /\ UNCHANGED site
       ELSE /\ GoTo(t, "create_task", "check", NoTask)
            /\ site' = [site EXCEPT ![t] = s]
            /\ UNCHANGED <<kern, current_task, started, pendsv, tick_count, panic>>
    /\ UNCHANGED <<is_created, stack_base>>

\* ... and, as a separate access, its assignment.  A second assignment changes
\* nothing: a task that finds the flag set meanwhile goes on.
set_created(t) ==
    /\ Inside(t, "create_task", "check") /\ site[t] \notin is_created
    /\ is_created' = is_created \cup {site[t]}
    /\ UNCHANGED <<svars, site, stack_base>>

\* t has both behind it.
past_flag(t) == Inside(t, "create_task", "check") /\ site[t] \in is_created

\* create_task_impl gives the storage of the site to the new task.
create_at(t, u, p) ==
    /\ past_flag(t)
    /\ create_task_impl(t, u, p)
    /\ stack_base' = [stack_base EXCEPT ![u] = site[t]]
    /\ site' = [site EXCEPT ![t] = NoSite]
    /\ UNCHANGED is_created

SiteNext ==
    \/ /\ \/ \E u \in Task : \E p \in TaskPriority[u] : MainCreate(u, p)
          \/ start \/ BootYield \/ NoSlotForIdle \/ tick \/ schedule_next_task \/ Halted
          \/ \E t \in Task : TaskStep(t) \/ (past_flag(t) /\ table_full)
       /\ UNCHANGED <<is_created, site, stack_base>>
    \/ \E t \in Task :
        \/ \E s \in Site : test_created(t, s)
        \/ set_created(t)
        \/ \E u \in Task : \E p \in TaskPriority[u] : create_at(t, u, p)

SiteSpec == SiteInit /\ [][SiteNext]_sitevars

\* docs/architecture.md on the storage of a call site: it belongs "to one, and
\* only one, task"; scheduler.hpp says a second call "is caught by an assert".
OneTaskPerStack ==
    \A u, v \in Task : stack_base[u] # NoSite /\ stack_base[u] = stack_base[v] => u = v
=============================================================================
