----------------------------- MODULE TaskCycle -----------------------------
(***************************************************************************)
(* The task cycle of the orchestrator (orchestrator.go), the routing       *)
(* matrix (routing.go), the nine-step protocol machine (protocol.go) and   *)
(* the context packages and wrap-ups the cycle keeps in memory             *)
(* (context_builder.go).  The requests of the backend are served one at a  *)
(* time, so a handler is an action; a statement of the memory may fail.    *)
(* A violation is the pair of steps it names, a waiver the step it waives, *)
(* a memory's id its place in memories, its trust the number of signals.   *)
(***************************************************************************)
EXTENDS Naturals, Sequences, FiniteSets

CONSTANTS
    Task,         \* ids of tasks
    TaskType,     \* their types; one without a rule is an unknown type
    MaxMemories,  \* bound: packages and wrap-ups stored
    MaxCycles     \* bound: cycles completed and waivers applied

ASSUME CycleAssumption == MaxMemories \in Nat /\ MaxCycles \in Nat

VARIABLES
    strictness,   \* OrchestratorConfig.ProtocolStrictness
    stateless,    \* OrchestratorConfig.UseStatelessAgents
    states,       \* ProtocolMachine.states
    memories,     \* the packages and wrap-ups stored
    cycles        \* completions and waivers so far

cycleVars == <<strictness, stateless, states, memories, cycles>>

-----------------------------------------------------------------------------
(* Routing.                                                                *)

Rule(type, agent, forbidden) ==
    [taskType |-> type, agent |-> agent, forbidden |-> forbidden]

RoutingMatrix ==
    {Rule("code-implementation", "coder", {"explorer"}),
     Rule("architecture-design", "architect", {"coder", "explorer"}),
     Rule("file-finding", "explorer",
          {"architect", "coder", "tester", "writer", "linter", "git", "scraper",
           "mcp-specialist", "release"}),
     Rule("testing", "tester", {"coder"}),
     Rule("linting", "linter", {"coder", "architect", "tester"}),
     Rule("git", "git", {"coder", "architect", "tester", "linter"}),
     Rule("documentation", "writer", {"explorer"}),
     Rule("web-scraping", "scraper", {"explorer"}),
     Rule("mcp-debug", "mcp-specialist", {"explorer"}),
     Rule("release", "release",
          {"coder", "architect", "tester", "linter", "explorer", "scraper", "writer",
           "git", "mcp-specialist"})}

routingByType(type) == {rule \in RoutingMatrix : rule.taskType = type}

\* ResolveAgent, with the default of the task cycle for a type without a rule.
resolveTaskAgent(type) ==
    IF routingByType(type) = {} THEN "architect"
    ELSE (CHOOSE rule \in routingByType(type) : TRUE).agent

ValidateRouting(type, agent) ==
    \A rule \in routingByType(type) : agent = rule.agent /\ agent \notin rule.forbidden

-----------------------------------------------------------------------------
(* The protocol machine.                                                   *)

ProtocolSteps == <<"MEMORY_QUERY", "THOUGHT_CHAIN", "PLAN", "DELEGATE", "GIT_CHECK",
                   "QUALITY_GATES", "IMPROVE", "DOC_UPDATE", "MEMORY_SAVE">>

ProtocolStep == {"IDLE", "MEMORY_QUERY", "THOUGHT_CHAIN", "PLAN", "DELEGATE", "GIT_CHECK",
         "QUALITY_GATES", "IMPROVE", "DOC_UPDATE", "MEMORY_SAVE", "COMPLETE"}

ProtocolValidTransitions ==
    [IDLE          |-> {"MEMORY_QUERY"},
     MEMORY_QUERY  |-> {"THOUGHT_CHAIN", "COMPLETE"},
     THOUGHT_CHAIN |-> {"PLAN"},
     PLAN          |-> {"DELEGATE"},
     DELEGATE      |-> {"GIT_CHECK"},
     GIT_CHECK     |-> {"QUALITY_GATES"},
     QUALITY_GATES |-> {"IMPROVE"},
     IMPROVE       |-> {"DOC_UPDATE"},
     DOC_UPDATE    |-> {"MEMORY_SAVE"},
     MEMORY_SAVE   |-> {"COMPLETE"},
     COMPLETE      |-> {}]

\* The steps some phrase waives.
WaiverPhrases == {"PLAN", "QUALITY_GATES", "GIT_CHECK", "DOC_UPDATE", "IMPROVE"}

NewProtocolState ==
    [current |-> "IDLE", completed |-> <<>>, violations |-> {}, waived |-> {}]

DoneSteps(state) == {state.completed[i] : i \in DOMAIN state.completed}

Allowed(state, step) == step \in ProtocolValidTransitions[state.current]

AdvanceUnchecked(state, step) ==
    [state EXCEPT
        !.current = step,
        !.completed = IF step \in DoneSteps(state) \cup {"IDLE", "COMPLETE"} THEN @
                      ELSE Append(@, step)]

\* A slip: the machine moves before it looks whether it may.
AdvanceMovesFirst(state, step) ==
    IF Allowed(state, step) \/ strictness = "lenient" THEN AdvanceUnchecked(state, step)
    ELSE IF strictness = "strict" THEN [state EXCEPT !.current = step]
    ELSE [AdvanceUnchecked(state, step) EXCEPT !.violations = @ \cup {<<state.current, step>>}]

\* Strict refuses a step out of order, standard records it, lenient takes it.
Advance(state, step) ==
    IF Allowed(state, step) \/ strictness = "lenient" THEN AdvanceUnchecked(state, step)
    ELSE IF strictness = "strict" THEN state
    ELSE [AdvanceUnchecked(state, step) EXCEPT !.violations = @ \cup {<<state.current, step>>}]

\* One turn of the loop of CompleteProtocol: strict stops at the first refusal.
Then(run, step) ==
    IF ~run.ok THEN run
    ELSE [state |-> Advance(run.state, step),
          ok    |-> strictness # "strict" \/ Allowed(run.state, step)]

CompleteProtocol(state) ==
    LET run == Then(Then(Then(Then(Then([state |-> state, ok |-> TRUE],
                   "GIT_CHECK"), "QUALITY_GATES"), "IMPROVE"), "DOC_UPDATE"), "MEMORY_SAVE")
    IN  IF run.ok THEN Advance(run.state, "COMPLETE") ELSE run.state

missingSteps(state) ==
    {ProtocolSteps[i] : i \in DOMAIN ProtocolSteps} \ (DoneSteps(state) \cup state.waived)

\* Enforce errs only in strict mode.
Enforce(state) == strictness = "strict" => missingSteps(state) = {}

-----------------------------------------------------------------------------
(* Memory, through the adapter of the memory system.                       *)

\* An entry: its kind, the task it is of, the memories it quotes, and the signals it has.
Entry(kind, t, quotes) == [kind |-> kind, task |-> t, quotes |-> quotes, trust |-> 0]

StoreMemoryEntry(entry) ==
    /\ Len(memories) < MaxMemories
    /\ memories' = Append(memories, entry)

\* The memories like the task's description, whatever kind they are: an embedding decides.
BuildContextPackage(t) == {Entry("context_package", t, found) : found \in SUBSET DOMAIN memories}

StoreContextPackage(package) == StoreMemoryEntry(package)
StoreAgentWrapUp(t)          == StoreMemoryEntry(Entry("agent_wrap_up", t, {}))

\* The prompt carries the id of the stored package.
BuildSeedPrompt(package) == StoreContextPackage(package)

\* Any stored JSON decodes into a wrap-up: its kind is not looked at.
FetchAgentWrapUp(id) == id \in DOMAIN memories

SignalUsed(id) ==
    IF id \in DOMAIN memories THEN [memories EXCEPT ![id].trust = @ + 1] ELSE memories

-----------------------------------------------------------------------------
CycleInit ==
    /\ strictness \in {"lenient", "standard", "strict"}
    /\ stateless \in BOOLEAN
    /\ states = <<>>
    /\ memories = <<>>
    /\ cycles = 0

SetState(t, state) == [u \in DOMAIN states \cup {t} |-> IF u = t THEN state ELSE states[u]]

\* InitState and the steps before the agent: they are marked, not performed.
Planned ==
    Advance(Advance(Advance(NewProtocolState, "MEMORY_QUERY"), "THOUGHT_CHAIN"), "PLAN")

\* The routing check; it cannot fail while the agent comes from the matrix.
Routed(type) ==
    IF ValidateRouting(type, resolveTaskAgent(type)) THEN Planned
    ELSE [Planned EXCEPT !.violations = @ \cup {<<"DELEGATE", type>>}]

Blocked(type) ==
    /\ ~ValidateRouting(type, resolveTaskAgent(type))
    /\ strictness = "strict"

Delegated(type) == IF Blocked(type) THEN Routed(type) ELSE Advance(Routed(type), "DELEGATE")

\* Whatever fails after the delegation, the new state stays in place of the old.
HandleTaskStateless(t, type) ==
    /\ states' = SetState(t, Delegated(type))
    /\ \/ ~Blocked(type) /\ \E package \in BuildContextPackage(t) : BuildSeedPrompt(package)
       \/ UNCHANGED memories
    /\ UNCHANGED <<strictness, stateless, cycles>>

\* The package goes back to the caller.
handleTaskInline(t, type) ==
    /\ states' = SetState(t, Delegated(type))
    /\ UNCHANGED <<strictness, stateless, memories, cycles>>

HandleTask(t, type) ==
    \/ stateless /\ HandleTaskStateless(t, type)
    \/ ~stateless /\ handleTaskInline(t, type)

\* Without the wrap-up nothing happens; the trust signal may fail unnoticed,
\* and so may the protocol, of whose error nothing is said.
CompleteTaskCycle(t, wrapUp, context) ==
    /\ cycles < MaxCycles
    /\ FetchAgentWrapUp(wrapUp)
    /\ memories' \in {SignalUsed(context), memories}
    /\ states' = IF t \in DOMAIN states THEN SetState(t, CompleteProtocol(states[t]))
                 ELSE states
    /\ cycles' = cycles + 1
    /\ UNCHANGED <<strictness, stateless>>

\* The waiver is recorded whether or not Advance takes the step.
ApplyWaiver(t, step) ==
    /\ cycles < MaxCycles
    /\ t \in DOMAIN states
    /\ states' = SetState(t, Advance([states[t] EXCEPT !.waived = @ \cup {step}], step))
    /\ cycles' = cycles + 1
    /\ UNCHANGED <<strictness, stateless, memories>>

-----------------------------------------------------------------------------
(* The handlers, an agent, and a program that uses the protocol machine.   *)

handleOrchestratorHandleTask == \E t \in Task, type \in TaskType : HandleTask(t, type)

handleOrchestratorHandleStateless ==
    \E t \in Task, type \in TaskType : HandleTaskStateless(t, type)

handleOrchestratorCompleteCycle ==
    \E t \in Task, wrapUp, context \in DOMAIN memories : CompleteTaskCycle(t, wrapUp, context)

\* The agent stores its wrap-up, if it does, before it returns.
AgentReturns ==
    /\ \E t \in Task : StoreAgentWrapUp(t)
    /\ UNCHANGED <<strictness, stateless, states, cycles>>

WaiverGiven == \E t \in Task, step \in WaiverPhrases : ApplyWaiver(t, step)

CycleNext ==
    \/ handleOrchestratorHandleTask
    \/ handleOrchestratorHandleStateless
    \/ handleOrchestratorCompleteCycle
    \/ AgentReturns
    \/ WaiverGiven

CycleSpec == CycleInit /\ [][CycleNext]_cycleVars

-----------------------------------------------------------------------------
CycleTypeOK ==
    /\ strictness \in {"lenient", "standard", "strict"}
    /\ stateless \in BOOLEAN
    /\ DOMAIN states \subseteq Task
    /\ \A t \in DOMAIN states :
          /\ states[t].current \in ProtocolStep
          /\ states[t].waived \subseteq WaiverPhrases
    /\ Len(memories) \in 0..MaxMemories
    /\ cycles \in 0..MaxCycles

\* The first k steps are completed, each after the one before it, and the task
\* is at the last of them; or it is complete, at the end or after the first.
Reached(state, k) ==
    /\ state.completed = SubSeq(ProtocolSteps, 1, k)
    /\ \/ k = 0 /\ state.current = "IDLE"
       \/ k \in 1..9 /\ state.current = ProtocolSteps[k]
       \/ k \in {1, 9} /\ state.current = "COMPLETE"

InOrder(state) == \E k \in 0..9 : Reached(state, k)

\* No task gets ahead of the protocol unseen: whatever order handling, completing
\* (again) and waiving come in, a task in strict mode has done its steps in
\* their order, and one in standard mode has too unless it holds a violation; and
\* of one that strict mode calls complete nothing is missing (protocol.go:163, :231).
NoSilentSkip ==
    \A t \in DOMAIN states :
        /\ \/ strictness = "lenient"
           \/ InOrder(states[t])
           \/ strictness = "standard" /\ states[t].violations # {}
        /\ states[t].current = "COMPLETE" => Enforce(states[t])
=============================================================================
