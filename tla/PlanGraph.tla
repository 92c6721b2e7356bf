------------------------------ MODULE PlanGraph ------------------------------
(***************************************************************************)
(* The depths of the tasks of a plan, as a definition to hold the          *)
(* algorithms of orchestrator/task_runner.go against.                      *)
(***************************************************************************)
EXTENDS Naturals, FiniteSets

CONSTANTS
    Tasks,     \* the tasks of the plan
    Outside    \* names a plan may give as dependencies without having the task

ASSUME PlanAssumption ==
    IsFiniteSet(Tasks) /\ IsFiniteSet(Outside) /\ Tasks \cap Outside = {}

Plans == [Tasks -> SUBSET (Tasks \cup Outside)]

\* A name without a task has depth 0.
DepthIn(d, x) == IF x \in Tasks THEN d[x] ELSE 0

\* d gives the plan the depths of GetParallelGroups: 0 without dependencies, else
\* one more than the deepest of them.
IsDepth(deps, d) ==
    \A t \in Tasks :
        IF deps[t] = {} THEN d[t] = 0
        ELSE /\ \A x \in deps[t] : DepthIn(d, x) < d[t]
             /\ \E x \in deps[t] : d[t] = DepthIn(d, x) + 1

\* Some tasks of the plan wait for each other.
Cyclic(deps) ==
    \E some \in SUBSET Tasks : some # {} /\ \A t \in some : deps[t] \cap some # {}

Dangling(deps) == \E t \in Tasks : deps[t] \cap Outside # {}
=============================================================================
