------------------------------ MODULE TaskRunner ------------------------------
(***************************************************************************)
(* TaskRunner.Dispatch and dispatchGroup (orchestrator/task_runner.go):    *)
(* the groups of a plan run one after the other, the tasks of a group on a *)
(* pool of workers fed by one channel and drained by another.  The groups  *)
(* are those of the definition in PlanGraph, which DependencyGraph shows   *)
(* GetParallelGroups to compute.                                           *)
(***************************************************************************)
EXTENDS PlanGraph, Naturals, FiniteSets

CONSTANTS
    MaxConcurrent,   \* TaskRunner.maxConcurrent
    None             \* no task

Workers == 1..MaxConcurrent

ASSUME RunnerAssumption ==
    /\ MaxConcurrent \in Nat \ {0}
    /\ None \notin Tasks

VARIABLES
    deps,        \* TaskPlan.Dependencies
    depth,       \* the depth of each task, once the groups are known
    level,       \* the depth of the group in progress
    pc,          \* where Dispatch is
    unsent,      \* the tasks of the group still to be sent on jobs
    jobs,        \* the channel jobs
    open,        \* jobs has not been closed
    worker,      \* the goroutines of the pool: "none", "ranging", "running", "done"
    holding,     \* the task each worker received
    alone,       \* the task of a group of one, run by Dispatch itself
    results,     \* the channel results: tasks with their outcome
    collected,   \* finalResults of the group
    all,         \* allResults
    cancelled    \* ctx.Err() # nil

chanVars == <<unsent, jobs, open, results>>
poolVars == <<worker, holding>>
vars == <<deps, depth, level, pc, chanVars, poolVars, alone, collected, all, cancelled>>

Outcomes == {"ok", "error"}
Group(d) == {t \in Tasks : depth[t] = d}
Named(pairs) == {p[1] : p \in pairs}

\* Each channel is made with room for one entry per task of the group.
HasRoom(channel) == Cardinality(channel) < Cardinality(Group(level))

Init ==
    /\ deps \in Plans
    /\ depth = [t \in Tasks |-> 0]
    /\ level = 0
    /\ pc = "start"
    /\ unsent = {}
    /\ jobs = {}
    /\ open = FALSE
    /\ worker = [w \in Workers |-> "none"]
    /\ holding = [w \in Workers |-> None]
    /\ alone = None
    /\ results = {}
    /\ collected = {}
    /\ all = {}
    /\ cancelled = FALSE

-----------------------------------------------------------------------------
(* Dispatch.                                                               *)

Depths == [Tasks -> 0..Cardinality(Tasks)]

\* Tasks grouped by the number of their dependencies.
GetGroupsByCount ==
    /\ pc = "start"
    /\ depth' = [t \in Tasks |-> Cardinality(deps[t])]
    /\ pc' = "between"
    /\ UNCHANGED <<deps, level, chanVars, poolVars, alone, collected, all, cancelled>>

\* tasksToEntries and GetParallelGroups.
GetGroups ==
    /\ pc = "start"
    /\ \/ \E d \in Depths : IsDepth(deps, d) /\ depth' = d /\ pc' = "between"
       \/ /\ ~\E d \in Depths : IsDepth(deps, d)
          /\ depth' = depth
          /\ pc' = "refused"
    /\ UNCHANGED <<deps, level, chanVars, poolVars, alone, collected, all, cancelled>>

\* A depth without tasks makes no group.
SkipLevel ==
    /\ pc = "between"
    /\ Group(level) = {}
    /\ \E t \in Tasks : depth[t] > level
    /\ level' = level + 1
    /\ UNCHANGED <<deps, depth, pc, chanVars, poolVars, alone, collected, all, cancelled>>

\* dispatchGroup of one task.
RunAlone ==
    /\ pc = "between"
    /\ \E t \in Tasks : Group(level) = {t} /\ alone' = t
    /\ pc' = "alone"
    /\ UNCHANGED <<deps, depth, level, chanVars, poolVars, collected, all, cancelled>>

\* The task fails, or BuildContextPackage for it, or it succeeds.
AloneEnds ==
    /\ pc = "alone"
    /\ \E o \in Outcomes : collected' = {<<alone, o>>}
    /\ alone' = None
    /\ pc' = "gathered"
    /\ UNCHANGED <<deps, depth, level, chanVars, poolVars, all, cancelled>>

\* min(len(group), maxConcurrent) workers, and both channels with room for all.
StartPool ==
    /\ pc = "between"
    /\ Cardinality(Group(level)) > 1
    /\ worker' = [w \in Workers |-> IF w <= Cardinality(Group(level)) THEN "ranging" ELSE "done"]
    /\ unsent' = Group(level)
    /\ open' = TRUE
    /\ pc' = "send"
    /\ UNCHANGED <<deps, depth, level, jobs, results, holding, alone, collected, all, cancelled>>

SendJob ==
    /\ pc = "send"
    /\ HasRoom(jobs)
    /\ \E t \in unsent : unsent' = unsent \ {t} /\ jobs' = jobs \cup {t}
    /\ UNCHANGED <<deps, depth, level, pc, open, results, poolVars, alone, collected, all,
                   cancelled>>

\* A sender that leaves the channel open.
CloseJobsForgotten ==
    /\ pc = "send"
    /\ unsent = {}
    /\ pc' = "collect"
    /\ UNCHANGED <<deps, depth, level, unsent, jobs, open, results, poolVars, alone, collected,
                   all, cancelled>>

CloseJobs ==
    /\ pc = "send"
    /\ unsent = {}
    /\ open' = FALSE
    /\ pc' = "collect"
    /\ UNCHANGED <<deps, depth, level, unsent, jobs, results, poolVars, alone, collected, all,
                   cancelled>>

\* for ir := range results
Collect ==
    /\ pc = "collect"
    /\ \E r \in results : results' = results \ {r} /\ collected' = collected \cup {r}
    /\ UNCHANGED <<deps, depth, level, pc, unsent, jobs, open, poolVars, alone, all, cancelled>>

\* A range that ends as soon as the channel is empty.
CollectedEarly ==
    /\ pc = "collect"
    /\ results = {}
    /\ pc' = "gathered"
    /\ UNCHANGED <<deps, depth, level, chanVars, poolVars, alone, collected, all, cancelled>>

\* wg.Wait is over, results is closed and drained.
Collected ==
    /\ pc = "collect"
    /\ \A w \in Workers : worker[w] = "done"
    /\ results = {}
    /\ pc' = "gathered"
    /\ UNCHANGED <<deps, depth, level, chanVars, poolVars, alone, collected, all, cancelled>>

\* The end of one turn of the loop: allResults grows, ctx is looked at.
NextGroup ==
    /\ pc = "gathered"
    /\ all' = all \cup collected
    /\ collected' = {}
    /\ level' = level + 1
    /\ pc' = IF cancelled THEN "interrupted" ELSE "between"
    /\ UNCHANGED <<deps, depth, chanVars, poolVars, alone, cancelled>>

Finish ==
    /\ pc = "between"
    /\ \A t \in Tasks : depth[t] < level
    /\ pc' = "finished"
    /\ UNCHANGED <<deps, depth, level, chanVars, poolVars, alone, collected, all, cancelled>>

-----------------------------------------------------------------------------
(* A worker of the pool, and the context.                                  *)

\* A worker that looks at a job and leaves it in the channel.
ReceiveCopy(w) ==
    /\ worker[w] = "ranging"
    /\ \E t \in jobs : holding' = [holding EXCEPT ![w] = t]
    /\ worker' = [worker EXCEPT ![w] = "running"]
    /\ UNCHANGED <<deps, depth, level, pc, chanVars, alone, collected, all, cancelled>>

Receive(w) ==
    /\ worker[w] = "ranging"
    /\ \E t \in jobs : jobs' = jobs \ {t} /\ holding' = [holding EXCEPT ![w] = t]
    /\ worker' = [worker EXCEPT ![w] = "running"]
    /\ UNCHANGED <<deps, depth, level, pc, unsent, open, results, alone, collected, all,
                   cancelled>>

\* A worker that goes on without a result when the context cannot be built.
AnswerOnSuccess(w) ==
    /\ worker[w] = "running"
    /\ HasRoom(results)
    /\ results' \in {results, results \cup {<<holding[w], "ok">>}}
    /\ worker' = [worker EXCEPT ![w] = "ranging"]
    /\ holding' = [holding EXCEPT ![w] = None]
    /\ UNCHANGED <<deps, depth, level, pc, unsent, jobs, open, alone, collected, all, cancelled>>

\* The task, or the building of its context, ends; the result waits for room.
Answer(w) ==
    /\ worker[w] = "running"
    /\ HasRoom(results)
    /\ \E o \in Outcomes : results' = results \cup {<<holding[w], o>>}
    /\ worker' = [worker EXCEPT ![w] = "ranging"]
    /\ holding' = [holding EXCEPT ![w] = None]
    /\ UNCHANGED <<deps, depth, level, pc, unsent, jobs, open, alone, collected, all, cancelled>>

\* The range over jobs ends.
Leave(w) ==
    /\ worker[w] = "ranging"
    /\ jobs = {}
    /\ ~open
    /\ worker' = [worker EXCEPT ![w] = "done"]
    /\ UNCHANGED <<deps, depth, level, pc, chanVars, holding, alone, collected, all, cancelled>>

Cancel ==
    /\ ~cancelled
    /\ pc \notin {"refused", "interrupted", "finished"}
    /\ cancelled' = TRUE
    /\ UNCHANGED <<deps, depth, level, pc, chanVars, poolVars, alone, collected, all>>

-----------------------------------------------------------------------------

Dispatch ==
    \/ GetGroups \/ SkipLevel \/ RunAlone \/ AloneEnds \/ StartPool \/ SendJob
    \/ CloseJobs \/ Collect \/ Collected \/ NextGroup \/ Finish

Work(w) == Receive(w) \/ Answer(w) \/ Leave(w)

Next == Dispatch \/ Cancel \/ \E w \in Workers : Work(w)

Spec == Init /\ [][Next]_vars

\* Goroutines run and a dispatched task ends; nobody has to cancel.
FairSpec == Spec /\ WF_vars(Dispatch) /\ \A w \in Workers : WF_vars(Work(w))

-----------------------------------------------------------------------------
(* Properties.                                                             *)

Pairs == Tasks \X Outcomes

TypeOK ==
    /\ deps \in Plans
    /\ depth \in [Tasks -> Nat]
    /\ level \in Nat
    /\ pc \in {"start", "between", "alone", "send", "collect", "gathered", "refused",
               "interrupted", "finished"}
    /\ unsent \subseteq Tasks
    /\ jobs \subseteq Tasks
    /\ open \in BOOLEAN
    /\ worker \in [Workers -> {"none", "ranging", "running", "done"}]
    /\ holding \in [Workers -> Tasks \cup {None}]
    /\ alone \in Tasks \cup {None}
    /\ results \subseteq Pairs
    /\ collected \subseteq Pairs
    /\ all \subseteq Pairs
    /\ cancelled \in BOOLEAN

Running == {holding[w] : w \in {v \in Workers : worker[v] = "running"}}
Active  == Running \cup ({alone} \ {None})
Ended   == Named(results) \cup Named(collected) \cup Named(all)

Execution == INSTANCE PlanExecution WITH active <- Active, ended <- Ended

\* The pool runs a task once, never before the tasks of the plan it depends on
\* have a result, and never more than MaxConcurrent at a time.
RunsThePlan == Execution!Spec

\* A Dispatch that returns without an error has one result for every task, even
\* when tasks failed; an interrupted one has the results of all its groups.
OneResultEach ==
    /\ pc = "finished" => Named(all) = Tasks
    /\ pc = "interrupted" => \A t \in Tasks : depth[t] < level => t \in Named(all)
    /\ \A p, q \in all \cup collected \cup results : p[1] = q[1] => p = q

\* Nothing of a group is left in the channels or in the pool when the next group
\* starts, or when Dispatch returns.
PoolDrained ==
    pc \in {"between", "interrupted", "finished"} =>
        /\ jobs = {} /\ results = {} /\ unsent = {}
        /\ \A w \in Workers : worker[w] \in {"none", "done"}

\* Dispatch returns: no send on a full channel, no receive that nobody answers.
DispatchReturns == <>(pc \in {"refused", "interrupted", "finished"})
=============================================================================
