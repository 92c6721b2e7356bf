---------------------------- MODULE PlanExecution ----------------------------
(***************************************************************************)
(* What the task runner promises of a plan, however it groups the tasks    *)
(* and whatever its workers do: a task starts once, when every task of the *)
(* plan it depends on has ended, and no more than MaxConcurrent of them    *)
(* are in progress.  A task that failed has ended too.  TaskRunner         *)
(* implements this specification.                                          *)
(***************************************************************************)
EXTENDS FiniteSets, Naturals

CONSTANTS Tasks, MaxConcurrent

VARIABLES
    deps,     \* what each task depends on, fixed
    active,   \* the tasks in progress
    ended     \* the tasks that have a result

vars == <<deps, active, ended>>

Init == active = {} /\ ended = {}

Start(t) ==
    /\ t \notin active \cup ended
    /\ deps[t] \cap Tasks \subseteq ended
    /\ Cardinality(active) < MaxConcurrent
    /\ active' = active \cup {t}
    /\ UNCHANGED <<deps, ended>>

End(t) ==
    /\ t \in active
    /\ active' = active \ {t}
    /\ ended' = ended \cup {t}
    /\ UNCHANGED deps

Next == \E t \in Tasks : Start(t) \/ End(t)

Spec == Init /\ [][Next]_vars
=============================================================================
