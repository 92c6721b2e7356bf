--------------------------- MODULE DependencyGraph ---------------------------
(***************************************************************************)
(* The two algorithms of orchestrator/task_runner.go on the dependencies   *)
(* of a plan: GetParallelGroups, a depth-first search that remembers the   *)
(* depths it has found, and TopologicalSort, the algorithm of Kahn.  They  *)
(* run one after the other on the same plan, so that their verdicts can be *)
(* compared.  The order of a Go map, and the order in which a plan lists   *)
(* its tasks and their dependencies, are choices.                          *)
(***************************************************************************)
EXTENDS PlanGraph, Sequences

VARIABLES
    deps,       \* FineGrainedTaskEntry.DependsOn of each task
    phase,      \* "group", "cycle" or "grouped", then "sort" and "sorted"
    depths,     \* the names whose depth is known, with it
    stack,      \* the calls of computeDepth in progress
    inDegree,   \* Kahn: the dependencies a task still waits for
    queue,      \* Kahn: tasks that wait for nothing
    sorted,     \* Kahn: the result so far
    verdict     \* what GetParallelGroups returned: "none" yet, "ok" or "cycle"

dfsVars  == <<depths, stack>>
kahnVars == <<inDegree, queue, sorted>>
vars     == <<deps, phase, dfsVars, kahnVars, verdict>>

Init ==
    /\ deps \in Plans
    /\ phase = "group"
    /\ depths = << >>
    /\ stack = << >>
    /\ inDegree = [t \in Tasks |-> 0]
    /\ queue = << >>
    /\ sorted = << >>
    /\ verdict = "none"

-----------------------------------------------------------------------------
(* GetParallelGroups.  computing[id] is TRUE exactly for the calls on the  *)
(* stack, which is what the membership tests below use.                    *)

Computing(x) == \E i \in DOMAIN stack : stack[i].id = x

Larger(a, b) == IF a > b THEN a ELSE b

\* The loop of a call goes on with what the call for x returned.
Returned(calls, x, d) ==
    IF calls = << >> THEN calls
    ELSE [calls EXCEPT ![Len(calls)].left = @ \ {x},
                       ![Len(calls)].deepest = Larger(@, d)]

Remember(x, d) == depths' = [y \in DOMAIN depths \cup {x} |-> IF y = x THEN d ELSE depths[y]]

\* computeDepth(x), called by the loop over the tasks or by the loop of a call.
Known(x) ==
    /\ x \in DOMAIN depths
    /\ stack' = Returned(stack, x, depths[x])
    /\ UNCHANGED <<deps, phase, depths, kahnVars, verdict>>

\* A task that is being computed counts as a task without dependencies.
CycleIgnored(x) ==
    /\ x \notin DOMAIN depths
    /\ Computing(x)
    /\ stack' = Returned(stack, x, 0)
    /\ UNCHANGED <<deps, phase, depths, kahnVars, verdict>>

FoundCycle(x) ==
    /\ x \notin DOMAIN depths
    /\ Computing(x)
    /\ phase' = "cycle"
    /\ verdict' = "cycle"
    /\ UNCHANGED <<deps, dfsVars, kahnVars>>

Independent(x) == IF x \in Tasks THEN deps[x] = {} ELSE TRUE

Leaf(x) ==
    /\ x \notin DOMAIN depths
    /\ ~Computing(x)
    /\ Independent(x)
    /\ Remember(x, 0)
    /\ stack' = Returned(stack, x, 0)
    /\ UNCHANGED <<deps, phase, kahnVars, verdict>>

Enter(x) ==
    /\ x \notin DOMAIN depths
    /\ ~Computing(x)
    /\ ~Independent(x)
    /\ stack' = Append(stack, [id |-> x, left |-> deps[x], deepest |-> 0])
    /\ UNCHANGED <<deps, phase, depths, kahnVars, verdict>>

ComputeDepth(x) == Known(x) \/ FoundCycle(x) \/ Leaf(x) \/ Enter(x)

Top == stack[Len(stack)]

\* for _, task := range tasks
NextTask ==
    /\ phase = "group"
    /\ stack = << >>
    /\ \E t \in Tasks \ DOMAIN depths : ComputeDepth(t)

NextDependency ==
    /\ phase = "group"
    /\ stack # << >>
    /\ \E x \in Top.left : ComputeDepth(x)

\* The depth of the last dependency instead of the deepest.
LeaveShallow ==
    /\ phase = "group"
    /\ stack # << >>
    /\ Top.left = {}
    /\ LET caller == SubSeq(stack, 1, Len(stack) - 1)
           d == IF Len(stack) > 1 THEN 1 ELSE Top.deepest + 1
       IN  Remember(Top.id, d) /\ stack' = Returned(caller, Top.id, d)
    /\ UNCHANGED <<deps, phase, kahnVars, verdict>>

\* depths[id] = maxDepDepth + 1
Leave ==
    /\ phase = "group"
    /\ stack # << >>
    /\ Top.left = {}
    /\ LET caller == SubSeq(stack, 1, Len(stack) - 1)
           d == Top.deepest + 1
       IN  Remember(Top.id, d) /\ stack' = Returned(caller, Top.id, d)
    /\ UNCHANGED <<deps, phase, kahnVars, verdict>>

Grouped ==
    /\ phase = "group"
    /\ stack = << >>
    /\ Tasks \subseteq DOMAIN depths
    /\ phase' = "grouped"
    /\ verdict' = "ok"
    /\ UNCHANGED <<deps, dfsVars, kahnVars>>

-----------------------------------------------------------------------------
(* TopologicalSort.  A name without a task is never in inDegree.           *)

Orders(some) ==
    {s \in [1..Cardinality(some) -> some] : \A i, j \in DOMAIN s : s[i] = s[j] => i = j}

\* A sort that does not wait for the names without a task.
StartSortInPlan ==
    /\ phase \in {"cycle", "grouped"}
    /\ phase' = "sort"
    /\ inDegree' = [t \in Tasks |-> Cardinality(deps[t] \cap Tasks)]
    /\ \E order \in Orders({t \in Tasks : deps[t] \cap Tasks = {}}) : queue' = order
    /\ UNCHANGED <<deps, dfsVars, sorted, verdict>>

StartSort ==
    /\ phase \in {"cycle", "grouped"}
    /\ phase' = "sort"
    /\ inDegree' = [t \in Tasks |-> Cardinality(deps[t])]
    /\ \E order \in Orders({t \in Tasks : deps[t] = {}}) : queue' = order
    /\ UNCHANGED <<deps, dfsVars, sorted, verdict>>

\* A task is queued again each time one of its dependencies is sorted.
SortNextEager ==
    /\ phase = "sort"
    /\ queue # << >>
    /\ sorted' = Append(sorted, Head(queue))
    /\ LET after == {t \in Tasks : Head(queue) \in deps[t]}
       IN  /\ inDegree' = [t \in Tasks |->
                IF t \in after THEN inDegree[t] - 1 ELSE inDegree[t]]
           /\ \E order \in Orders(after) : queue' = Tail(queue) \o order
    /\ UNCHANGED <<deps, phase, dfsVars, verdict>>

SortNext ==
    /\ phase = "sort"
    /\ queue # << >>
    /\ sorted' = Append(sorted, Head(queue))
    /\ LET after == {t \in Tasks : Head(queue) \in deps[t]}
       IN  /\ inDegree' = [t \in Tasks |->
                IF t \in after THEN inDegree[t] - 1 ELSE inDegree[t]]
           /\ \E order \in Orders({t \in after : inDegree'[t] = 0}) :
                queue' = Tail(queue) \o order
    /\ UNCHANGED <<deps, phase, dfsVars, verdict>>

\* A sort that ends when it has all the tasks.
SortEndsComplete ==
    /\ phase = "sort"
    /\ Len(sorted) = Cardinality(Tasks)
    /\ phase' = "sorted"
    /\ UNCHANGED <<deps, dfsVars, kahnVars, verdict>>

SortEnds ==
    /\ phase = "sort"
    /\ queue = << >>
    /\ phase' = "sorted"
    /\ UNCHANGED <<deps, dfsVars, kahnVars, verdict>>

-----------------------------------------------------------------------------

Next ==
    \/ NextTask \/ NextDependency \/ Leave \/ Grouped
    \/ StartSort \/ SortNext \/ SortEnds

Spec == Init /\ [][Next]_vars /\ WF_vars(Next)

-----------------------------------------------------------------------------
(* Properties.                                                             *)

Names == Tasks \cup Outside

TypeOK ==
    /\ deps \in Plans
    /\ phase \in {"group", "cycle", "grouped", "sort", "sorted"}
    /\ DOMAIN depths \subseteq Names
    /\ \A x \in DOMAIN depths : depths[x] \in Nat
    /\ stack \in Seq([id : Tasks, left : SUBSET Names, deepest : Nat])
    /\ inDegree \in [Tasks -> Nat]
    /\ queue \in Seq(Tasks)
    /\ sorted \in Seq(Tasks)
    /\ verdict \in {"none", "ok", "cycle"}

\* The depths the search remembers are the depths of the definition, in whatever
\* order the plan lists its tasks: the memo never keeps a depth computed too early.
DepthsExact ==
    phase = "grouped" => IsDepth(deps, [t \in Tasks |-> depths[t]])

\* GetParallelGroups refuses exactly the plans whose tasks wait for each other.  A
\* name without a task is no reason.
CyclesRefused == verdict # "none" => (verdict = "cycle" <=> Cyclic(deps))

\* TopologicalSort lists a task once, after everything it depends on ...
SortedInOrder ==
    \A i \in DOMAIN sorted :
        /\ \A j \in DOMAIN sorted : sorted[i] = sorted[j] => i = j
        /\ \A x \in deps[sorted[i]] : \E j \in 1..i-1 : sorted[j] = x

\* ... and accepts the plans GetParallelGroups accepts, but for those that name a
\* task the plan does not have.
SortsWhatIsGrouped ==
    phase = "sorted" =>
        (Len(sorted) = Cardinality(Tasks) <=> verdict = "ok" /\ ~Dangling(deps))

\* Both end, on every plan.
Ends == <>(phase = "sorted")
=============================================================================
