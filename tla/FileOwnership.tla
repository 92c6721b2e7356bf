---------------------------- MODULE FileOwnership ----------------------------
(***************************************************************************)
(* The tasks of a decomposition plan, their status machine, and the        *)
(* registry of the files they own (orchestrator/task_runner.go).  Each     *)
(* method of the registry holds its lock from end to end and is an action; *)
(* what a task does between two of them is not, so the status of a task    *)
(* and the one the registry has of it differ in between.  The scheduler    *)
(* that calls them is external: it acquires a lock at dispatch and         *)
(* releases it after a terminal status, as the registry's comment has it,  *)
(* reports a status late or never, and may ask for a lock twice.           *)
(***************************************************************************)
EXTENDS Naturals, FiniteSets

CONSTANTS
    FineTask,    \* ids of the tasks
    Unplanned,   \* ids a task may name and the plan has not
    TargetFile,  \* paths
    NoTask       \* no owner

ASSUME FineTaskAssumption == NoTask \notin FineTask

VARIABLES
    entry,      \* the plan: of a task its TargetFile and DependsOn
    taskStatus, \* FineGrainedTaskEntry.Status
    locks,      \* FileOwnershipRegistry.locks
    told        \* the tasks AcquireLock has said true to, until they release

ownershipVars == <<entry, taskStatus, locks, told>>

TaskStateTransitions ==
    [PENDING             |-> {"READY", "CANCELLED"},
     READY               |-> {"ACTIVE", "CANCELLED"},
     ACTIVE              |-> {"COMPLETE", "BLOCKED", "FAILED", "CANCELLED"},
     BLOCKED             |-> {"RESOLVING", "FAILED", "CANCELLED"},
     RESOLVING           |-> {"DEPENDENCY_BUILDING", "FAILED", "CANCELLED"},
     DEPENDENCY_BUILDING |-> {"RESUMED", "FAILED", "CANCELLED"},
     RESUMED             |-> {"COMPLETE", "BLOCKED", "FAILED", "CANCELLED"},
     COMPLETE            |-> {},
     FAILED              |-> {},
     CANCELLED           |-> {}]

TaskStatus == DOMAIN TaskStateTransitions

CanTransition(from, to) == to \in TaskStateTransitions[from]

TerminalStatuses == {"COMPLETE", "FAILED", "CANCELLED"}

FileLock == [task: FineTask, status: TaskStatus]

\* Nothing is validated: a task may depend on itself or on what is not planned,
\* and two may have one target.
OwnershipInit ==
    /\ entry \in [FineTask -> [file: TargetFile, dependsOn: SUBSET (FineTask \cup Unplanned)]]
    /\ taskStatus = [t \in FineTask |-> "PENDING"]
    /\ locks = [f \in {} |-> NoTask]
    /\ told = {}

-----------------------------------------------------------------------------
(* The tasks.                                                              *)

\* The status map has no status of a task that is not in the plan.
FindReadyTasks ==
    {t \in FineTask : /\ taskStatus[t] = "PENDING"
                      /\ \A d \in entry[t].dependsOn : d \in FineTask /\ taskStatus[d] = "COMPLETE"}

FindBlockedTasks == {t \in FineTask : taskStatus[t] = "BLOCKED"}

MarkReady(t) ==
    /\ t \in FindReadyTasks
    /\ taskStatus' = [taskStatus EXCEPT ![t] = "READY"]
    /\ UNCHANGED <<entry, locks, told>>

DispatchTask(t) ==
    /\ taskStatus[t] = "READY"
    /\ t \in told
    /\ taskStatus' = [taskStatus EXCEPT ![t] = "ACTIVE"]
    /\ UNCHANGED <<entry, locks, told>>

\* A blocked task is found and resolved; the other moves are the agent's.
TaskMoves(t, to) ==
    /\ CanTransition(taskStatus[t], to)
    /\ to \notin {"READY", "ACTIVE"}
    /\ to = "RESOLVING" => t \in FindBlockedTasks
    /\ taskStatus' = [taskStatus EXCEPT ![t] = to]
    /\ UNCHANGED <<entry, locks, told>>

-----------------------------------------------------------------------------
(* The registry.                                                           *)

Held(f) == f \in DOMAIN locks

SetLock(f, t, s) ==
    locks' = [g \in DOMAIN locks \cup {f} |-> IF g = f THEN [task |-> t, status |-> s] ELSE locks[g]]

\* A slip: only an owner at work keeps a file; one that waits loses it.
FreeUnlessActive(f) == Held(f) => locks[f].status # "ACTIVE"

Free(f) == Held(f) => locks[f].status \in TerminalStatuses

\* A task's own lock is as it was, whatever its status; a free file it takes over,
\* with the status it is dispatched with.  In any other case the answer is false.
AcquireLock(t) ==
    /\ taskStatus[t] \notin TerminalStatuses \cup {"PENDING"}
    /\ \/ Held(entry[t].file) /\ locks[entry[t].file].task = t /\ UNCHANGED locks
       \/ Free(entry[t].file) /\ SetLock(entry[t].file, t, "ACTIVE")
    /\ told' = told \cup {t}
    /\ UNCHANGED <<entry, taskStatus>>

\* Only the owner's report counts.
UpdateLockStatus(t) ==
    /\ Held(entry[t].file)
    /\ locks[entry[t].file].task = t
    /\ locks' = [locks EXCEPT ![entry[t].file].status = taskStatus[t]]
    /\ UNCHANGED <<entry, taskStatus, told>>

\* Only the owner's release counts; the task is over, whatever it is told.
ReleaseLock(t) ==
    /\ t \in told
    /\ taskStatus[t] \in TerminalStatuses
    /\ told' = told \ {t}
    /\ locks' = IF Held(entry[t].file) /\ locks[entry[t].file].task = t
                THEN [f \in DOMAIN locks \ {entry[t].file} |-> locks[f]]
                ELSE locks
    /\ UNCHANGED <<entry, taskStatus>>

Working(t) == t \in told /\ taskStatus[t] \notin TerminalStatuses

\* A hard reset, between two plans.
Clear ==
    /\ \A t \in FineTask : ~Working(t)
    /\ locks' = [f \in {} |-> NoTask]
    /\ UNCHANGED <<entry, taskStatus, told>>

GetOwner(f) == IF Free(f) THEN NoTask ELSE locks[f].task

GetActiveLocks == {f \in DOMAIN locks : ~Free(f)}

OwnershipNext ==
    \/ \E t \in FineTask : MarkReady(t)
    \/ \E t \in FineTask, to \in TaskStatus : TaskMoves(t, to)
    \/ \E t \in FineTask : AcquireLock(t)
    \/ \E t \in FineTask : DispatchTask(t)
    \/ \E t \in FineTask : UpdateLockStatus(t)
    \/ \E t \in FineTask : ReleaseLock(t)
    \/ Clear

OwnershipSpec == OwnershipInit /\ [][OwnershipNext]_ownershipVars

-----------------------------------------------------------------------------
OwnershipTypeOK ==
    /\ entry \in [FineTask -> [file: TargetFile, dependsOn: SUBSET (FineTask \cup Unplanned)]]
    /\ taskStatus \in [FineTask -> TaskStatus]
    /\ DOMAIN locks \subseteq TargetFile
    /\ \A f \in DOMAIN locks : locks[f] \in FileLock
    /\ told \subseteq FineTask

\* Documented: the registry "prevents two agents from owning the same file
\* simultaneously" (task_runner.go:254).  Of the tasks told that they have a file,
\* and not over, there is one, and it is the owner the registry names; whether
\* others ask again, report late, or find the lock of a task that is over.
OneOwner ==
    \A t \in FineTask : Working(t) =>
        /\ GetOwner(entry[t].file) = t
        /\ entry[t].file \in GetActiveLocks
        /\ \A u \in FineTask : Working(u) /\ entry[u].file = entry[t].file => u = t
=============================================================================
