-------------------------- MODULE OrchestrationProofs --------------------------
(***************************************************************************)
(* Theorems about the areas of the backend that are not the memory system: *)
(* the orchestrator, the broker as requests see it, and peers.  Each       *)
(* section is about the specification of one area, as its module has it,   *)
(* and is independent of the others.  BackendProofs carries them over to   *)
(* the backend.                                                            *)
(***************************************************************************)
EXTENDS TaskCycle, FileOwnership, SkillScope, ToolBroker, PeerServices,
        FiniteSetTheorems, SequenceTheorems, TLAPS

(***************************************************************************)
(*                                Task cycle                               *)
(*                                                                         *)
(* No task gets ahead of the protocol unseen, for any tasks, types and     *)
(* number of cycles, and for each of the three strictness levels.          *)
(* NoSilentSkip is not inductive: of a task that is complete in strict     *)
(* mode it says only that nothing is missing, and the short way from the   *)
(* first step to the end has to be excluded, which strict mode never goes. *)
(***************************************************************************)

\* The step a task is at after k of them.
StepAfter(k) == IF k = 0 THEN "IDLE" ELSE ProtocolSteps[k]

\* The first k steps are done, in their order.
Done(state, k) == state.completed = SubSeq(ProtocolSteps, 1, k)

IsState(state) ==
    state = [current |-> state.current, completed |-> state.completed,
             violations |-> state.violations, waived |-> state.waived]

\* What holds of the state of a task at a strictness level.
StateKept(level, state) ==
    /\ IsState(state)
    /\ level = "standard" => InOrder(state) \/ state.violations # {}
    /\ level = "strict" => \E k \in 0..9 : /\ Done(state, k)
                                           /\ \/ state.current = StepAfter(k)
                                              \/ k = 9 /\ state.current = "COMPLETE"

CycleInv ==
    /\ strictness \in {"lenient", "standard", "strict"}
    /\ \A t \in DOMAIN states : StateKept(strictness, states[t])

-----------------------------------------------------------------------------
(* The table of transitions.                                               *)

LEMMA StepsAreNine ==
  /\ ProtocolSteps \in Seq(ProtocolStep)
  /\ Len(ProtocolSteps) = 9
  /\ \A i \in 1..9 : ProtocolSteps[i] \in ProtocolStep
  BY SMTT(60) DEF ProtocolSteps, ProtocolStep

LEMMA StepsFacts ==
  /\ \A i, j \in 1..9 : ProtocolSteps[i] = ProtocolSteps[j] => i = j
  /\ \A i \in 1..9 : ProtocolSteps[i] \notin {"IDLE", "COMPLETE"}
  /\ ProtocolSteps[9] = "MEMORY_SAVE"
  BY SMTT(60) DEF ProtocolSteps, ProtocolStep

\* From the k-th step the table leads to the next, and to the end from two of them.
LEMMA TableFacts ==
  ASSUME NEW k \in 0..9, NEW step, step \in ProtocolValidTransitions[StepAfter(k)]
  PROVE  \/ k < 9 /\ step = ProtocolSteps[k + 1]
         \/ k \in {1, 9} /\ step = "COMPLETE"
<1>1. k \in {0, 1, 2, 3, 4, 5, 6, 7, 8, 9}
  OBVIOUS
<1> QED  BY <1>1, SMTT(60) DEF StepAfter, ProtocolSteps, ProtocolValidTransitions

LEMMA NothingAfterComplete == ProtocolValidTransitions["COMPLETE"] = {}
  BY DEF ProtocolValidTransitions

LEMMA PrefixOf ==
  ASSUME NEW S, NEW s \in Seq(S), NEW n \in 0..Len(s)
  PROVE  /\ SubSeq(s, 1, n) \in Seq(S)
         /\ Len(SubSeq(s, 1, n)) = n
         /\ \A i \in 1..n : SubSeq(s, 1, n)[i] = s[i]
  OBVIOUS

\* A prefix of the steps, and what comes after it.
LEMMA PrefixFacts ==
  ASSUME NEW k \in 0..9
  PROVE  /\ {SubSeq(ProtocolSteps, 1, k)[i] : i \in DOMAIN SubSeq(ProtocolSteps, 1, k)}
              = {ProtocolSteps[i] : i \in 1..k}
         /\ k < 9 => Append(SubSeq(ProtocolSteps, 1, k), ProtocolSteps[k + 1])
                       = SubSeq(ProtocolSteps, 1, k + 1)
<1> DEFINE p == SubSeq(ProtocolSteps, 1, k)
<1>1. p \in Seq(ProtocolStep) /\ Len(p) = k /\ \A i \in 1..k : p[i] = ProtocolSteps[i]
  <2>1. k \in 0..Len(ProtocolSteps)
    BY StepsAreNine
  <2> QED  BY <2>1, StepsAreNine, PrefixOf
<1>2. DOMAIN p = 1..k
  BY <1>1
<1>3. ASSUME k < 9
      PROVE  Append(p, ProtocolSteps[k + 1]) = SubSeq(ProtocolSteps, 1, k + 1)
  <2> DEFINE q == SubSeq(ProtocolSteps, 1, k + 1)
  <2>1. /\ q \in Seq(ProtocolStep) /\ Len(q) = k + 1
        /\ \A i \in 1..(k + 1) : q[i] = ProtocolSteps[i]
    <3>1. k + 1 \in 0..Len(ProtocolSteps)
      BY <1>3, StepsAreNine
    <3> QED  BY <3>1, StepsAreNine, PrefixOf
  <2>2. ProtocolSteps[k + 1] \in ProtocolStep
    BY <1>3, StepsAreNine
  <2> DEFINE r == Append(p, ProtocolSteps[k + 1])
  <2> HIDE DEF p, q
  <2>3. /\ r \in Seq(ProtocolStep) /\ Len(r) = k + 1
        /\ \A i \in 1..(k + 1) : r[i] = ProtocolSteps[i]
    BY <1>1, <2>2
  <2> HIDE DEF r
  <2>4. r = q
    BY <2>1, <2>3
  <2> QED  BY <2>4 DEF p, q, r
<1> HIDE DEF p
<1>4. {p[i] : i \in DOMAIN p} = {ProtocolSteps[i] : i \in 1..k}
  BY <1>1, <1>2
<1> QED  BY <1>3, <1>4 DEF p

-----------------------------------------------------------------------------
(* One step of the machine.                                                *)

\* A step that is taken in order is added to the steps done.
LEMMA InOrderStep ==
  ASSUME NEW state, IsState(state), NEW k \in 0..9, Done(state, k),
         k < 9, state.current = StepAfter(k)
  PROVE  LET next == AdvanceUnchecked(state, ProtocolSteps[k + 1]) IN
         /\ IsState(next)
         /\ Done(next, k + 1)
         /\ next.current = ProtocolSteps[k + 1]
         /\ next.waived = state.waived
<1> DEFINE step == ProtocolSteps[k + 1]
<1>1. DoneSteps(state) = {ProtocolSteps[i] : i \in 1..k}
  BY PrefixFacts DEF DoneSteps, Done
<1>2. step \notin {ProtocolSteps[i] : i \in 1..k} /\ step \notin {"IDLE", "COMPLETE"}
  BY StepsFacts
<1> HIDE DEF step
<1>3. AdvanceUnchecked(state, step) =
        [state EXCEPT !.current = step, !.completed = Append(state.completed, step)]
  BY <1>1, <1>2 DEF AdvanceUnchecked
<1>4. /\ IsState(AdvanceUnchecked(state, step))
      /\ AdvanceUnchecked(state, step).completed = Append(state.completed, step)
      /\ AdvanceUnchecked(state, step).current = step
      /\ AdvanceUnchecked(state, step).waived = state.waived
  BY <1>3 DEF IsState
<1>5. Append(state.completed, step) = SubSeq(ProtocolSteps, 1, k + 1)
  BY PrefixFacts DEF Done, step
<1> QED  BY <1>4, <1>5 DEF Done, step

\* The end adds nothing to them.
LEMMA EndStep ==
  ASSUME NEW state, IsState(state)
  PROVE  LET next == AdvanceUnchecked(state, "COMPLETE") IN
         /\ IsState(next)
         /\ next.completed = state.completed
         /\ next.current = "COMPLETE"
         /\ next.waived = state.waived
<1>1. AdvanceUnchecked(state, "COMPLETE") = [state EXCEPT !.current = "COMPLETE"]
  <2>1. AdvanceUnchecked(state, "COMPLETE") =
          [state EXCEPT !.current = "COMPLETE", !.completed = state.completed]
    BY Zenon DEF AdvanceUnchecked
  <2> QED  BY <2>1 DEF IsState
<1> QED  BY <1>1 DEF IsState

\* A step leaves the violations alone, and the waivers.
LEMMA AdvanceKeeps ==
  ASSUME NEW state, IsState(state), NEW step
  PROVE  LET next == AdvanceUnchecked(state, step) IN
         /\ IsState(next)
         /\ next.current = step
         /\ next.violations = state.violations
         /\ next.waived = state.waived
<1>1. \E done : AdvanceUnchecked(state, step) =
                 [state EXCEPT !.current = step, !.completed = done]
  BY Zenon DEF AdvanceUnchecked
<1>2. PICK done : AdvanceUnchecked(state, step) =
                  [state EXCEPT !.current = step, !.completed = done]
  BY <1>1
<1> QED  BY <1>2 DEF IsState

\* The places InOrder knows.
LEMMA Places ==
  ASSUME NEW state, NEW k \in 0..9, Reached(state, k)
  PROVE  /\ Done(state, k)
         /\ state.current = StepAfter(k) \/ (k \in {1, 9} /\ state.current = "COMPLETE")
  BY DEF Reached, Done, StepAfter

LEMMA StandardStep ==
  ASSUME NEW state, StateKept("standard", state), strictness = "standard", NEW step
  PROVE  StateKept("standard", Advance(state, step))
<1> USE DEF StateKept
<1>1. IsState(state) /\ (InOrder(state) \/ state.violations # {})
  OBVIOUS
<1>2. IsState(AdvanceUnchecked(state, step))
      /\ AdvanceUnchecked(state, step).violations = state.violations
  BY <1>1, AdvanceKeeps
<1>3. CASE ~Allowed(state, step)
  <2>1. Advance(state, step) =
          [AdvanceUnchecked(state, step) EXCEPT !.violations = @ \cup {<<state.current, step>>}]
    BY <1>3 DEF Advance
  <2>2. IsState(Advance(state, step)) /\ Advance(state, step).violations # {}
    BY <1>2, <2>1 DEF IsState
  <2> QED  BY <2>2
<1>4. CASE Allowed(state, step)
  <2>1. Advance(state, step) = AdvanceUnchecked(state, step)
    BY <1>4 DEF Advance
  <2>2. CASE state.violations # {}
    BY <1>2, <2>1, <2>2
  <2>3. CASE InOrder(state)
    <3>1. PICK k \in 0..9 : Reached(state, k)
      BY <2>3 DEF InOrder
    <3>2. state.current # "COMPLETE"
      BY <1>4, NothingAfterComplete DEF Allowed
    <3>3. Done(state, k) /\ state.current = StepAfter(k)
      BY <3>1, <3>2, Places
    <3>4. CASE k < 9 /\ step = ProtocolSteps[k + 1]
      <4>1. k + 1 \in 1..9 /\ k + 1 \in 0..9
        BY <3>4
      <4>2. /\ Done(AdvanceUnchecked(state, step), k + 1)
            /\ AdvanceUnchecked(state, step).current = ProtocolSteps[k + 1]
        BY <1>1, <3>3, <3>4, InOrderStep
      <4>3. Reached(AdvanceUnchecked(state, step), k + 1)
        BY <4>1, <4>2 DEF Reached, Done
      <4> QED  BY <1>2, <2>1, <4>1, <4>3 DEF InOrder
    <3>5. CASE k \in {1, 9} /\ step = "COMPLETE"
      <4>1. Reached(AdvanceUnchecked(state, step), k)
        BY <1>1, <3>3, <3>5, EndStep DEF Reached, Done
      <4> QED  BY <1>2, <2>1, <4>1 DEF InOrder
    <3> QED  BY <1>4, <3>3, <3>4, <3>5, TableFacts DEF Allowed
  <2> QED  BY <1>1, <2>2, <2>3
<1> QED  BY <1>3, <1>4

\* In strict mode the end is reached from the last step only.
LEMMA StrictStep ==
  ASSUME NEW state, StateKept("strict", state), strictness = "strict", NEW step,
         step = "COMPLETE" => state.current = "MEMORY_SAVE"
  PROVE  StateKept("strict", Advance(state, step))
<1> USE DEF StateKept
<1>1. CASE ~Allowed(state, step)
  BY <1>1 DEF Advance
<1>2. CASE Allowed(state, step)
  <2>1. Advance(state, step) = AdvanceUnchecked(state, step)
    BY <1>2 DEF Advance
  <2>2. PICK k \in 0..9 : Done(state, k) /\ (state.current = StepAfter(k) \/ (k = 9 /\ state.current = "COMPLETE"))
    OBVIOUS
  <2>3. state.current = StepAfter(k)
    BY <1>2, <2>2, NothingAfterComplete DEF Allowed
  <2>4. CASE k < 9 /\ step = ProtocolSteps[k + 1]
    <3>1. /\ IsState(AdvanceUnchecked(state, step))
          /\ Done(AdvanceUnchecked(state, step), k + 1)
          /\ AdvanceUnchecked(state, step).current = StepAfter(k + 1)
      BY <2>2, <2>3, <2>4, InOrderStep DEF StepAfter
    <3> QED  BY <2>1, <2>4, <3>1
  <2>5. CASE k \in {1, 9} /\ step = "COMPLETE"
    <3>1. k = 9
      BY <2>3, <2>5, StepsFacts DEF StepAfter
    <3>2. /\ IsState(AdvanceUnchecked(state, step))
          /\ Done(AdvanceUnchecked(state, step), 9)
          /\ AdvanceUnchecked(state, step).current = "COMPLETE"
      BY <2>2, <2>5, <3>1, EndStep DEF Done
    <3> QED  BY <2>1, <3>2
  <2> QED  BY <1>2, <2>3, <2>4, <2>5, TableFacts DEF Allowed
<1> QED  BY <1>1, <1>2

LEMMA LevelStep ==
  ASSUME strictness \in {"lenient", "standard", "strict"},
         NEW state, StateKept(strictness, state), NEW step,
         strictness = "strict" /\ step = "COMPLETE" => state.current = "MEMORY_SAVE"
  PROVE  StateKept(strictness, Advance(state, step))
<1>1. CASE strictness = "lenient"
  <2>1. IsState(AdvanceUnchecked(state, step))
    BY AdvanceKeeps DEF StateKept
  <2> QED  BY <1>1, <2>1 DEF Advance, StateKept
<1>2. CASE strictness = "standard"
  BY <1>2, StandardStep
<1>3. CASE strictness = "strict"
  BY <1>3, StrictStep
<1> QED  BY <1>1, <1>2, <1>3

-----------------------------------------------------------------------------
(* What the orchestrator does with the state of a task.                    *)

\* A mark, be it a violation or a waiver, leaves the task where it is.
LEMMA MarkKeeps ==
  ASSUME NEW level, NEW state, StateKept(level, state), NEW next, IsState(next),
         next.current = state.current, next.completed = state.completed,
         state.violations # {} => next.violations # {}
  PROVE  StateKept(level, next)
<1>1. InOrder(state) => InOrder(next)
  BY DEF InOrder, Reached
<1> QED  BY <1>1 DEF StateKept, Done

LEMMA NewKept ==
  ASSUME NEW level
  PROVE  StateKept(level, NewProtocolState)
<1>1. SubSeq(ProtocolSteps, 1, 0) = <<>>
  <2>1. 0 \in 0..Len(ProtocolSteps)
    BY StepsAreNine
  <2> DEFINE p == SubSeq(ProtocolSteps, 1, 0)
  <2>2. p \in Seq(ProtocolStep) /\ Len(p) = 0
    BY <2>1, StepsAreNine, PrefixOf
  <2> HIDE DEF p
  <2>3. p = <<>>
    BY <2>2
  <2> QED  BY <2>3 DEF p
<1>2. Reached(NewProtocolState, 0)
  BY <1>1 DEF Reached, NewProtocolState
<1> QED  BY <1>1, <1>2 DEF StateKept, IsState, InOrder, Done, StepAfter, NewProtocolState

LEMMA ViolationKept ==
  ASSUME NEW level, NEW state, StateKept(level, state), NEW violation
  PROVE  StateKept(level, [state EXCEPT !.violations = @ \cup {violation}])
<1> DEFINE next == [state EXCEPT !.violations = @ \cup {violation}]
<1>1. IsState(next) /\ next.current = state.current
      /\ next.completed = state.completed /\ next.violations # {}
  BY DEF IsState, StateKept
<1> HIDE DEF next
<1>2. StateKept(level, next)
  BY <1>1, MarkKeeps
<1> QED  BY <1>2 DEF next

LEMMA DelegatedKept ==
  ASSUME strictness \in {"lenient", "standard", "strict"}, NEW type
  PROVE  StateKept(strictness, Delegated(type))
<1>1. StateKept(strictness, Advance(NewProtocolState, "MEMORY_QUERY"))
  BY NewKept, LevelStep
<1>2. StateKept(strictness, Advance(Advance(NewProtocolState, "MEMORY_QUERY"), "THOUGHT_CHAIN"))
  BY <1>1, LevelStep
<1>3. StateKept(strictness, Planned)
  BY <1>2, LevelStep DEF Planned
<1>4. StateKept(strictness, Routed(type))
  BY <1>3, ViolationKept DEF Routed
<1>5. StateKept(strictness, Advance(Routed(type), "DELEGATE"))
  BY <1>4, LevelStep
<1> QED  BY <1>4, <1>5 DEF Delegated

\* A turn that strict mode lets pass has taken its step.
LEMMA ThenKeeps ==
  ASSUME strictness \in {"lenient", "standard", "strict"},
         NEW run, StateKept(strictness, run.state), NEW step, step # "COMPLETE"
  PROVE  /\ StateKept(strictness, Then(run, step).state)
         /\ strictness = "strict" /\ Then(run, step).ok => Then(run, step).state.current = step
<1>1. CASE ~run.ok
  BY <1>1 DEF Then
<1>2. CASE run.ok
  <2>1. /\ Then(run, step).state = Advance(run.state, step)
        /\ Then(run, step).ok = (strictness # "strict" \/ Allowed(run.state, step))
    BY <1>2 DEF Then
  <2>2. StateKept(strictness, Then(run, step).state)
    BY <2>1, LevelStep
  <2>3. Allowed(run.state, step) => Advance(run.state, step).current = step
    BY AdvanceKeeps DEF Advance, StateKept
  <2> QED  BY <2>1, <2>2, <2>3
<1> QED  BY <1>1, <1>2

\* Strict mode comes to the end from MEMORY_SAVE only.
LEMMA CompletionKept ==
  ASSUME strictness \in {"lenient", "standard", "strict"},
         NEW state, StateKept(strictness, state)
  PROVE  StateKept(strictness, CompleteProtocol(state))
<1> DEFINE r0 == [state |-> state, ok |-> TRUE]
           r1 == Then(r0, "GIT_CHECK")
           r2 == Then(r1, "QUALITY_GATES")
           r3 == Then(r2, "IMPROVE")
           r4 == Then(r3, "DOC_UPDATE")
           r5 == Then(r4, "MEMORY_SAVE")
<1>1. CompleteProtocol(state) = IF r5.ok THEN Advance(r5.state, "COMPLETE") ELSE r5.state
  BY DEF CompleteProtocol
<1>2. StateKept(strictness, r0.state)
  OBVIOUS
<1> HIDE DEF r0
<1>3. StateKept(strictness, r1.state)
  BY <1>2, ThenKeeps
<1> HIDE DEF r1
<1>4. StateKept(strictness, r2.state)
  BY <1>3, ThenKeeps
<1> HIDE DEF r2
<1>5. StateKept(strictness, r3.state)
  BY <1>4, ThenKeeps
<1> HIDE DEF r3
<1>6. StateKept(strictness, r4.state)
  BY <1>5, ThenKeeps
<1> HIDE DEF r4
<1>7. /\ StateKept(strictness, r5.state)
      /\ strictness = "strict" /\ r5.ok => r5.state.current = "MEMORY_SAVE"
  BY <1>6, ThenKeeps
<1> HIDE DEF r5
<1>8. r5.ok => StateKept(strictness, Advance(r5.state, "COMPLETE"))
  BY <1>7, LevelStep
<1> QED  BY <1>1, <1>7, <1>8

LEMMA WaiverKept ==
  ASSUME strictness \in {"lenient", "standard", "strict"},
         NEW state, StateKept(strictness, state), NEW step, step # "COMPLETE"
  PROVE  StateKept(strictness, Advance([state EXCEPT !.waived = @ \cup {step}], step))
<1> DEFINE next == [state EXCEPT !.waived = @ \cup {step}]
<1>1. IsState(next) /\ next.current = state.current
      /\ next.completed = state.completed /\ next.violations = state.violations
  BY DEF IsState, StateKept
<1> HIDE DEF next
<1>2. StateKept(strictness, next)
  BY <1>1, MarkKeeps
<1>3. StateKept(strictness, Advance(next, step))
  BY <1>2, LevelStep
<1> QED  BY <1>3 DEF next

-----------------------------------------------------------------------------
(* The cycle.                                                              *)

LEMMA SetStateKeeps ==
  ASSUME CycleInv, NEW t, NEW state, StateKept(strictness, state),
         states' = SetState(t, state), UNCHANGED strictness
  PROVE  CycleInv'
<1>1. ASSUME NEW u \in DOMAIN states'  PROVE StateKept(strictness, states'[u])
  BY <1>1 DEF CycleInv, SetState
<1> QED  BY <1>1 DEF CycleInv, StateKept, IsState, InOrder, Reached, Done

\* Whatever order the requests come in, the state of every task is kept.
THEOREM CycleInductive == CycleSpec => []CycleInv
<1>1. CycleInit => CycleInv
  BY DEF CycleInit, CycleInv
<1>2. CycleInv /\ [CycleNext]_cycleVars => CycleInv'
  <2> SUFFICES ASSUME CycleInv, [CycleNext]_cycleVars  PROVE CycleInv'
    OBVIOUS
  <2>1. strictness \in {"lenient", "standard", "strict"}
    BY DEF CycleInv
  <2>2. CASE UNCHANGED <<strictness, states>>
    BY <2>2 DEF CycleInv, StateKept, IsState, InOrder, Reached, Done
  <2>3. ASSUME NEW t \in Task, NEW type \in TaskType,
               HandleTaskStateless(t, type) \/ handleTaskInline(t, type)
        PROVE  CycleInv'
    <3>1. states' = SetState(t, Delegated(type)) /\ UNCHANGED strictness
      BY <2>3 DEF HandleTaskStateless, handleTaskInline
    <3> QED  BY <2>1, <3>1, DelegatedKept, SetStateKeeps
  <2>4. ASSUME NEW t \in Task, NEW wrapUp, NEW context, CompleteTaskCycle(t, wrapUp, context)
        PROVE  CycleInv'
    <3>1. CASE t \in DOMAIN states
      <4>1. states' = SetState(t, CompleteProtocol(states[t])) /\ UNCHANGED strictness
        BY <2>4, <3>1 DEF CompleteTaskCycle
      <4>2. StateKept(strictness, states[t])
        BY <3>1 DEF CycleInv
      <4> QED  BY <2>1, <4>1, <4>2, CompletionKept, SetStateKeeps
    <3>2. CASE t \notin DOMAIN states
      BY <2>2, <2>4, <3>2 DEF CompleteTaskCycle
    <3> QED  BY <3>1, <3>2
  <2>5. CASE AgentReturns
    BY <2>2, <2>5 DEF AgentReturns
  <2>6. ASSUME NEW t \in Task, NEW step \in WaiverPhrases, ApplyWaiver(t, step)
        PROVE  CycleInv'
    <3>1. /\ t \in DOMAIN states
          /\ states' = SetState(t, Advance([states[t] EXCEPT !.waived = @ \cup {step}], step))
          /\ UNCHANGED strictness
      BY <2>6 DEF ApplyWaiver
    <3>2. step # "COMPLETE"
      BY DEF WaiverPhrases
    <3>3. StateKept(strictness, states[t])
      BY <3>1 DEF CycleInv
    <3> QED  BY <2>1, <3>1, <3>2, <3>3, WaiverKept, SetStateKeeps
  <2>7. CASE CycleNext
    <3>1. CASE handleOrchestratorHandleTask \/ handleOrchestratorHandleStateless
      BY <2>3, <3>1
      DEF handleOrchestratorHandleTask, handleOrchestratorHandleStateless, HandleTask
    <3>2. CASE handleOrchestratorCompleteCycle
      BY <2>4, <3>2 DEF handleOrchestratorCompleteCycle
    <3>3. CASE WaiverGiven
      BY <2>6, <3>3 DEF WaiverGiven
    <3> QED  BY <2>5, <2>7, <3>1, <3>2, <3>3 DEF CycleNext
  <2>8. CASE UNCHANGED cycleVars
    BY <2>2, <2>8 DEF cycleVars
  <2> QED  BY <2>7, <2>8
<1> QED  BY <1>1, <1>2, PTL DEF CycleSpec

\* Of a task that strict mode has at the end, nothing is missing.
LEMMA NothingMissing ==
  ASSUME NEW state, Done(state, 9)
  PROVE  missingSteps(state) = {}
<1>1. DoneSteps(state) = {ProtocolSteps[i] : i \in 1..9}
  BY PrefixFacts DEF DoneSteps, Done
<1>2. DOMAIN ProtocolSteps = 1..9
  BY StepsAreNine
<1> QED  BY <1>1, <1>2 DEF missingSteps

\* No task gets ahead of the protocol unseen: in strict mode the steps of a task
\* are done in their order, in standard mode they are or a violation says so, and
\* a task that strict mode calls complete misses none (protocol.go:163, :231).
THEOREM NothingSkippedSilently == CycleSpec => []NoSilentSkip
<1>1. CycleInv => NoSilentSkip
  <2> SUFFICES ASSUME CycleInv, NEW t \in DOMAIN states
               PROVE  /\ \/ strictness = "lenient"
                         \/ InOrder(states[t])
                         \/ strictness = "standard" /\ states[t].violations # {}
                      /\ states[t].current = "COMPLETE" => Enforce(states[t])
    BY DEF NoSilentSkip
  <2>1. StateKept(strictness, states[t]) /\ strictness \in {"lenient", "standard", "strict"}
    BY DEF CycleInv
  <2>2. CASE strictness # "strict"
    BY <2>1, <2>2 DEF StateKept, Enforce
  <2>3. CASE strictness = "strict"
    <3>1. PICK k \in 0..9 : /\ Done(states[t], k)
                            /\ \/ states[t].current = StepAfter(k)
                               \/ k = 9 /\ states[t].current = "COMPLETE"
      BY <2>1, <2>3 DEF StateKept
    <3>2. Reached(states[t], k)
      BY <3>1 DEF Reached, Done, StepAfter
    <3>3. StepAfter(k) # "COMPLETE"
      BY StepsFacts DEF StepAfter
    <3>4. states[t].current = "COMPLETE" => missingSteps(states[t]) = {}
      BY <3>1, <3>3, NothingMissing
    <3> QED  BY <3>2, <3>4 DEF InOrder, Enforce
  <2> QED  BY <2>2, <2>3
<1> QED  BY <1>1, CycleInductive, PTL

-----------------------------------------------------------------------------
(* The types of the tasks: each is at a step of the protocol.              *)

\* A task is at a step of the protocol, and what is waived of it is a step a phrase names.
StepsNamed(state) == state.current \in ProtocolStep /\ state.waived \subseteq WaiverPhrases

MemoryEntry == [kind : {"context_package", "agent_wrap_up"}, task : Task,
                quotes : SUBSET Nat, trust : Nat]

CycleTyped ==
    /\ stateless \in BOOLEAN
    /\ DOMAIN states \subseteq Task
    /\ \A t \in DOMAIN states : StepsNamed(states[t])
    /\ memories \in Seq(MemoryEntry) /\ Len(memories) <= MaxMemories
    /\ cycles \in 0..MaxCycles

LEMMA AdvanceNames ==
  ASSUME NEW state, IsState(state), StepsNamed(state), NEW step \in ProtocolStep
  PROVE  IsState(Advance(state, step)) /\ StepsNamed(Advance(state, step))
<1> DEFINE next == AdvanceUnchecked(state, step)
           marked == [next EXCEPT !.violations = @ \cup {<<state.current, step>>}]
<1>1. IsState(next) /\ StepsNamed(next)
  BY AdvanceKeeps DEF StepsNamed
<1>2. Advance(state, step) \in {next, state, marked}
  BY Zenon DEF Advance
<1> HIDE DEF next
<1>3. IsState(marked) /\ marked.current = next.current /\ marked.waived = next.waived
  BY <1>1 DEF IsState
<1> HIDE DEF marked
<1> QED  BY <1>1, <1>2, <1>3 DEF StepsNamed

LEMMA NewNames == IsState(NewProtocolState) /\ StepsNamed(NewProtocolState)
  BY DEF IsState, StepsNamed, NewProtocolState, ProtocolStep

LEMMA DelegatedNames ==
  ASSUME NEW type
  PROVE  StepsNamed(Delegated(type))
<1>1. {"MEMORY_QUERY", "THOUGHT_CHAIN", "PLAN", "DELEGATE"} \subseteq ProtocolStep
  BY DEF ProtocolStep
<1> DEFINE s1 == Advance(NewProtocolState, "MEMORY_QUERY")
           s2 == Advance(s1, "THOUGHT_CHAIN")
<1>2. IsState(s1) /\ StepsNamed(s1)
  BY <1>1, NewNames, AdvanceNames
<1> HIDE DEF s1
<1>3. IsState(s2) /\ StepsNamed(s2)
  BY <1>1, <1>2, AdvanceNames
<1> HIDE DEF s2
<1>4. IsState(Planned) /\ StepsNamed(Planned)
  BY <1>1, <1>3, AdvanceNames DEF Planned, s1, s2
<1> DEFINE marked == [Planned EXCEPT !.violations = @ \cup {<<"DELEGATE", type>>}]
<1>5. IsState(marked) /\ marked.current = Planned.current /\ marked.waived = Planned.waived
  BY <1>4 DEF IsState
<1>6. Routed(type) = Planned \/ Routed(type) = marked
  BY DEF Routed
<1> HIDE DEF marked
<1>7. IsState(Routed(type)) /\ StepsNamed(Routed(type))
  BY <1>4, <1>5, <1>6 DEF StepsNamed
<1>8. StepsNamed(Advance(Routed(type), "DELEGATE"))
  BY <1>1, <1>7, AdvanceNames
<1> QED  BY <1>7, <1>8 DEF Delegated

LEMMA ThenNames ==
  ASSUME NEW run, IsState(run.state), StepsNamed(run.state), NEW step \in ProtocolStep
  PROVE  IsState(Then(run, step).state) /\ StepsNamed(Then(run, step).state)
<1>1. Then(run, step).state \in {run.state, Advance(run.state, step)}
  BY DEF Then
<1> QED  BY <1>1, AdvanceNames

LEMMA CompletionNames ==
  ASSUME NEW state, IsState(state), StepsNamed(state)
  PROVE  StepsNamed(CompleteProtocol(state))
<1> DEFINE r0 == [state |-> state, ok |-> TRUE]
           r1 == Then(r0, "GIT_CHECK")
           r2 == Then(r1, "QUALITY_GATES")
           r3 == Then(r2, "IMPROVE")
           r4 == Then(r3, "DOC_UPDATE")
           r5 == Then(r4, "MEMORY_SAVE")
<1>1. CompleteProtocol(state) = IF r5.ok THEN Advance(r5.state, "COMPLETE") ELSE r5.state
  BY DEF CompleteProtocol
<1>2. {"GIT_CHECK", "QUALITY_GATES", "IMPROVE", "DOC_UPDATE", "MEMORY_SAVE", "COMPLETE"}
         \subseteq ProtocolStep
  BY DEF ProtocolStep
<1>3. IsState(r0.state) /\ StepsNamed(r0.state)
  OBVIOUS
<1> HIDE DEF r0
<1>4. IsState(r1.state) /\ StepsNamed(r1.state)
  BY <1>2, <1>3, ThenNames
<1> HIDE DEF r1
<1>5. IsState(r2.state) /\ StepsNamed(r2.state)
  BY <1>2, <1>4, ThenNames
<1> HIDE DEF r2
<1>6. IsState(r3.state) /\ StepsNamed(r3.state)
  BY <1>2, <1>5, ThenNames
<1> HIDE DEF r3
<1>7. IsState(r4.state) /\ StepsNamed(r4.state)
  BY <1>2, <1>6, ThenNames
<1> HIDE DEF r4
<1>8. IsState(r5.state) /\ StepsNamed(r5.state)
  BY <1>2, <1>7, ThenNames
<1> HIDE DEF r5
<1> QED  BY <1>1, <1>2, <1>8, AdvanceNames

LEMMA WaiverNames ==
  ASSUME NEW state, IsState(state), StepsNamed(state), NEW step \in WaiverPhrases
  PROVE  StepsNamed(Advance([state EXCEPT !.waived = @ \cup {step}], step))
<1> DEFINE next == [state EXCEPT !.waived = @ \cup {step}]
<1>1. IsState(next) /\ next.current = state.current /\ next.waived = state.waived \cup {step}
  BY DEF IsState
<1> HIDE DEF next
<1>2. StepsNamed(next) /\ step \in ProtocolStep
  BY <1>1 DEF StepsNamed, WaiverPhrases, ProtocolStep
<1>3. StepsNamed(Advance(next, step))
  BY <1>1, <1>2, AdvanceNames
<1> QED  BY <1>3 DEF next

\* The step of a state that is set and of memories that are stored or signalled.
LEMMA StateSetTyped ==
  ASSUME CycleTyped, NEW t \in Task, NEW state, StepsNamed(state), states' = SetState(t, state),
         UNCHANGED stateless,
         memories' \in Seq(MemoryEntry), Len(memories') <= MaxMemories,
         cycles' \in 0..MaxCycles
  PROVE  CycleTyped'
<1>1. DOMAIN states' \subseteq Task /\ \A u \in DOMAIN states' : StepsNamed(states'[u])
  BY DEF CycleTyped, SetState
<1> QED  BY <1>1 DEF CycleTyped, StepsNamed

LEMMA EntryStored ==
  ASSUME CycleTyped, NEW remembered \in MemoryEntry, StoreMemoryEntry(remembered)
  PROVE  memories' \in Seq(MemoryEntry) /\ Len(memories') <= MaxMemories
<1>1. /\ memories \in Seq(MemoryEntry) /\ Len(memories) < MaxMemories
      /\ memories' = Append(memories, remembered)
  BY DEF StoreMemoryEntry, CycleTyped
<1>2. memories' \in Seq(MemoryEntry) /\ Len(memories') = Len(memories) + 1
  BY <1>1, AppendProperties
<1> QED  BY <1>1, <1>2, CycleAssumption, LenProperties

LEMMA SignalTyped ==
  ASSUME CycleTyped, NEW id
  PROVE  SignalUsed(id) \in Seq(MemoryEntry) /\ Len(SignalUsed(id)) <= MaxMemories
<1>1. memories \in Seq(MemoryEntry) /\ Len(memories) <= MaxMemories
  BY DEF CycleTyped
<1>2. CASE id \in DOMAIN memories
  <2> DEFINE remembered == [memories[id] EXCEPT !.trust = @ + 1]
  <2>1. memories[id] \in MemoryEntry
    BY <1>1, <1>2, ElementOfSeq, LenProperties
  <2>2. remembered \in MemoryEntry
    BY <2>1 DEF MemoryEntry
  <2>3. SignalUsed(id) = [memories EXCEPT ![id] = remembered]
    BY <1>2 DEF SignalUsed
  <2> HIDE DEF remembered
  <2> QED  BY <1>1, <1>2, <2>2, <2>3, ExceptSeq
<1>3. CASE id \notin DOMAIN memories
  BY <1>1, <1>3 DEF SignalUsed
<1> QED  BY <1>2, <1>3

LEMMA CycleTypedStep ==
  ASSUME CycleInv, CycleTyped, [CycleNext]_cycleVars
  PROVE  CycleTyped'
<1>0. /\ memories \in Seq(MemoryEntry) /\ Len(memories) <= MaxMemories /\ cycles \in 0..MaxCycles
      /\ \A t \in DOMAIN states : IsState(states[t]) /\ StepsNamed(states[t])
  BY DEF CycleInv, StateKept, CycleTyped
<1>1. CASE UNCHANGED cycleVars
  BY <1>1 DEF cycleVars, CycleTyped, StepsNamed
<1>2. ASSUME NEW t \in Task, NEW type, HandleTaskStateless(t, type) \/ handleTaskInline(t, type)
      PROVE  CycleTyped'
  <2>1. states' = SetState(t, Delegated(type)) /\ UNCHANGED <<stateless, cycles>>
    BY <1>2 DEF HandleTaskStateless, handleTaskInline
  <2>2. \/ UNCHANGED memories
        \/ \E package \in BuildContextPackage(t) : StoreMemoryEntry(package)
    BY <1>2 DEF HandleTaskStateless, handleTaskInline, BuildSeedPrompt, StoreContextPackage
  <2>3. \A package \in BuildContextPackage(t) : package \in MemoryEntry
    <3>1. DOMAIN memories \subseteq Nat
      BY <1>0, LenProperties
    <3>2. \A found \in SUBSET DOMAIN memories : found \in SUBSET Nat
      BY <3>1
    <3> QED  BY <3>2 DEF BuildContextPackage, Entry, MemoryEntry
  <2>4. memories' \in Seq(MemoryEntry) /\ Len(memories') <= MaxMemories
    BY <1>0, <2>2, <2>3, EntryStored
  <2> QED  BY <1>0, <2>1, <2>4, DelegatedNames, StateSetTyped
<1>3. ASSUME NEW t \in Task, NEW wrapUp, NEW context, CompleteTaskCycle(t, wrapUp, context)
      PROVE  CycleTyped'
  <2>1. memories' \in Seq(MemoryEntry) /\ Len(memories') <= MaxMemories
    BY <1>0, <1>3, SignalTyped DEF CompleteTaskCycle
  <2>2. cycles' \in 0..MaxCycles /\ UNCHANGED stateless
    BY <1>0, <1>3, CycleAssumption DEF CompleteTaskCycle
  <2>3. CASE t \in DOMAIN states
    <3>1. states' = SetState(t, CompleteProtocol(states[t]))
      BY <1>3, <2>3 DEF CompleteTaskCycle
    <3> QED  BY <1>0, <2>1, <2>2, <2>3, <3>1, CompletionNames, StateSetTyped
  <2>4. CASE t \notin DOMAIN states
    <3>1. UNCHANGED states
      BY <1>3, <2>4 DEF CompleteTaskCycle
    <3> QED  BY <2>1, <2>2, <3>1 DEF CycleTyped, StepsNamed
  <2> QED  BY <2>3, <2>4
<1>4. CASE AgentReturns
  <2>1. PICK t \in Task : StoreMemoryEntry(Entry("agent_wrap_up", t, {}))
    BY <1>4 DEF AgentReturns, StoreAgentWrapUp
  <2>2. Entry("agent_wrap_up", t, {}) \in MemoryEntry
    BY DEF Entry, MemoryEntry
  <2>3. memories' \in Seq(MemoryEntry) /\ Len(memories') <= MaxMemories
    BY <2>1, <2>2, EntryStored
  <2> QED  BY <1>4, <2>3 DEF AgentReturns, CycleTyped, StepsNamed
<1>5. ASSUME NEW t \in Task, NEW step \in WaiverPhrases, ApplyWaiver(t, step)
      PROVE  CycleTyped'
  <2>1. /\ t \in DOMAIN states
        /\ states' = SetState(t, Advance([states[t] EXCEPT !.waived = @ \cup {step}], step))
        /\ UNCHANGED <<stateless, memories>>
    BY <1>5 DEF ApplyWaiver
  <2>2. cycles' \in 0..MaxCycles
    BY <1>0, <1>5, CycleAssumption DEF ApplyWaiver
  <2> QED  BY <1>0, <2>1, <2>2, WaiverNames, StateSetTyped
<1>6. CASE handleOrchestratorHandleTask \/ handleOrchestratorHandleStateless
  BY <1>2, <1>6 DEF handleOrchestratorHandleTask, handleOrchestratorHandleStateless, HandleTask
<1>7. CASE handleOrchestratorCompleteCycle
  BY <1>3, <1>7 DEF handleOrchestratorCompleteCycle
<1>8. CASE WaiverGiven
  BY <1>5, <1>8 DEF WaiverGiven
<1> QED  BY <1>1, <1>4, <1>6, <1>7, <1>8 DEF CycleNext

\* A task is at a step of the protocol and only steps a phrase names are waived.
THEOREM CycleTypeCorrect == CycleSpec => []CycleTypeOK
<1>1. CycleInit => CycleTyped
  <2>1. <<>> \in Seq(MemoryEntry) /\ Len(<<>>) = 0
    OBVIOUS
  <2> QED  BY <2>1, CycleAssumption DEF CycleInit, CycleTyped
<1>2. CycleInv /\ CycleTyped /\ [CycleNext]_cycleVars => CycleTyped'
  BY CycleTypedStep
<1>3. CycleInv /\ CycleTyped => CycleTypeOK
  BY CycleAssumption, LenProperties DEF CycleInv, CycleTyped, StepsNamed, CycleTypeOK
<1> QED  BY <1>1, <1>2, <1>3, CycleInductive, PTL DEF CycleSpec

(***************************************************************************)
(*                              File ownership                             *)
(*                                                                         *)
(* At most one task at a time owns a file, for any plan of any tasks.      *)
(* OneOwner speaks of what tasks have been told and follows from the lock  *)
(* that a working task has; that lock is lost only to a task that finds    *)
(* it free or its own, and it is neither while its owner is at work.       *)
(***************************************************************************)

\* A working task has the lock of its file, with a status it can go on from.
HasItsLock ==
    \A t \in FineTask : Working(t) =>
        /\ entry[t].file \in DOMAIN locks
        /\ locks[entry[t].file].task = t
        /\ locks[entry[t].file].status \notin TerminalStatuses

\* A lock is of its task's file, and a task that has one and can go on was told so.
LocksAreTold ==
    \A f \in DOMAIN locks :
        /\ entry[locks[f].task].file = f
        /\ taskStatus[locks[f].task] \notin TerminalStatuses => locks[f].task \in told

OwnershipInv == OwnershipTypeOK /\ HasItsLock /\ LocksAreTold

\* The statuses that are values of the machine.
LEMMA StatusFacts ==
    /\ TerminalStatuses \subseteq TaskStatus
    /\ "PENDING" \in TaskStatus /\ "READY" \in TaskStatus /\ "ACTIVE" \in TaskStatus
    /\ "PENDING" \notin TerminalStatuses /\ "READY" \notin TerminalStatuses
    /\ "ACTIVE" \notin TerminalStatuses
    /\ \A from \in TaskStatus : \A to : CanTransition(from, to) =>
          to \in TaskStatus /\ from \notin TerminalStatuses
  BY SMTT(60) DEF TerminalStatuses, TaskStatus, TaskStateTransitions, CanTransition

LEMMA OwnershipInitial == OwnershipInit => OwnershipInv
  BY StatusFacts DEF OwnershipInit, OwnershipInv, OwnershipTypeOK, HasItsLock, LocksAreTold, Working

\* The step of a task whose status changes and not to or from its end.
LEMMA MarkReadyKeeps ==
  ASSUME OwnershipInv, NEW t \in FineTask, MarkReady(t)
  PROVE  OwnershipInv'
  BY StatusFacts DEF OwnershipInv, OwnershipTypeOK, HasItsLock, LocksAreTold, Working, MarkReady, FindReadyTasks

LEMMA DispatchKeeps ==
  ASSUME OwnershipInv, NEW t \in FineTask, DispatchTask(t)
  PROVE  OwnershipInv'
  BY StatusFacts DEF OwnershipInv, OwnershipTypeOK, HasItsLock, LocksAreTold, Working, DispatchTask

\* A task only ever leaves the working ones by a move.
LEMMA MoveKeeps ==
  ASSUME OwnershipInv, NEW t \in FineTask, NEW to \in TaskStatus, TaskMoves(t, to)
  PROVE  OwnershipInv'
<1>1. taskStatus[t] \in TaskStatus /\ taskStatus[t] \notin TerminalStatuses
  BY StatusFacts DEF OwnershipInv, OwnershipTypeOK, TaskMoves
<1>2. taskStatus' = [taskStatus EXCEPT ![t] = to] /\ UNCHANGED <<entry, locks, told>>
  BY DEF TaskMoves
<1> QED
  BY <1>1, <1>2 DEF OwnershipInv, OwnershipTypeOK, HasItsLock, LocksAreTold, Working

\* A task that takes a lock over takes it from one that is not working.
LEMMA AcquireKeeps ==
  ASSUME OwnershipInv, NEW t \in FineTask, AcquireLock(t)
  PROVE  OwnershipInv'
<1> DEFINE f == entry[t].file
<1>1. f \in TargetFile /\ taskStatus[t] \notin TerminalStatuses /\ told' = told \cup {t}
      /\ UNCHANGED <<entry, taskStatus>>
  BY DEF OwnershipInv, OwnershipTypeOK, AcquireLock
<1>2. CASE f \in DOMAIN locks /\ locks[f].task = t /\ UNCHANGED locks
  <2>1. t \in told
    BY <1>1, <1>2 DEF OwnershipInv, LocksAreTold
  <2> QED
    BY <1>1, <1>2, <2>1 DEF OwnershipInv, OwnershipTypeOK, HasItsLock, LocksAreTold, Working
<1>3. CASE Free(f) /\ SetLock(f, t, "ACTIVE")
  <2>1. \A u \in FineTask : Working(u) /\ u # t => entry[u].file # f
    BY <1>3 DEF OwnershipInv, HasItsLock, Free, Held
  <2>2. /\ DOMAIN locks' = DOMAIN locks \cup {f}
        /\ locks'[f] = [task |-> t, status |-> "ACTIVE"]
        /\ \A g \in DOMAIN locks \ {f} : locks'[g] = locks[g]
    BY <1>3 DEF SetLock
  <2>3. OwnershipTypeOK'
    BY <1>1, <2>2, StatusFacts DEF OwnershipInv, OwnershipTypeOK, FileLock
  <2>4. HasItsLock'
    BY <1>1, <2>1, <2>2, StatusFacts DEF OwnershipInv, HasItsLock, Working
  <2>5. LocksAreTold'
    BY <1>1, <2>2 DEF OwnershipInv, LocksAreTold
  <2> QED  BY <2>3, <2>4, <2>5 DEF OwnershipInv
<1> QED  BY <1>2, <1>3 DEF AcquireLock, Held

LEMMA UpdateKeeps ==
  ASSUME OwnershipInv, NEW t \in FineTask, UpdateLockStatus(t)
  PROVE  OwnershipInv'
<1> DEFINE f == entry[t].file
<1>1. f \in DOMAIN locks /\ locks[f].task = t /\ UNCHANGED <<entry, taskStatus, told>>
  BY DEF UpdateLockStatus, Held
<1>2. locks' = [locks EXCEPT ![f].status = taskStatus[t]] /\ locks[f] \in FileLock
  BY <1>1 DEF UpdateLockStatus, OwnershipInv, OwnershipTypeOK
<1>3. /\ DOMAIN locks' = DOMAIN locks
      /\ locks'[f] \in FileLock
      /\ locks'[f].task = t /\ locks'[f].status = taskStatus[t]
      /\ \A g \in DOMAIN locks : g # f => locks'[g] = locks[g]
  BY <1>1, <1>2 DEF FileLock, OwnershipInv, OwnershipTypeOK
<1>4. OwnershipTypeOK'
  BY <1>1, <1>3 DEF OwnershipInv, OwnershipTypeOK
<1>5. HasItsLock'
  <2> SUFFICES ASSUME NEW u \in FineTask, Working(u)'
               PROVE  /\ entry[u].file \in DOMAIN locks'
                      /\ locks'[entry[u].file].task = u
                      /\ locks'[entry[u].file].status \notin TerminalStatuses
    BY <1>1 DEF HasItsLock
  <2>1. Working(u)
    BY <1>1 DEF Working
  <2> QED  BY <1>1, <1>3, <2>1 DEF OwnershipInv, HasItsLock, Working
<1>6. LocksAreTold'
  <2> SUFFICES ASSUME NEW g \in DOMAIN locks
               PROVE  /\ entry[locks'[g].task].file = g
                      /\ taskStatus[locks'[g].task] \notin TerminalStatuses => locks'[g].task \in told
    BY <1>1, <1>3 DEF LocksAreTold
  <2>1. CASE g = f
    BY <1>1, <1>3, <2>1 DEF OwnershipInv, LocksAreTold
  <2>2. CASE g # f
    BY <1>3, <2>2 DEF OwnershipInv, LocksAreTold
  <2> QED  BY <2>1, <2>2
<1> QED  BY <1>4, <1>5, <1>6 DEF OwnershipInv

\* A release, by one that is over, takes nothing from one that is not.
LEMMA ReleaseKeeps ==
  ASSUME OwnershipInv, NEW t \in FineTask, ReleaseLock(t)
  PROVE  OwnershipInv'
<1>1. taskStatus[t] \in TerminalStatuses /\ told' = told \ {t} /\ UNCHANGED <<entry, taskStatus>>
  BY DEF ReleaseLock
<1>2. /\ DOMAIN locks' \subseteq DOMAIN locks
      /\ \A g \in DOMAIN locks : g \in DOMAIN locks' \/ locks[g].task = t
      /\ \A g \in DOMAIN locks' : locks'[g] = locks[g]
  BY DEF ReleaseLock, Held
<1>3. OwnershipTypeOK'
  BY <1>1, <1>2 DEF OwnershipInv, OwnershipTypeOK
<1>4. HasItsLock'
  BY <1>1, <1>2 DEF OwnershipInv, HasItsLock, Working
<1>5. LocksAreTold'
  BY <1>1, <1>2 DEF OwnershipInv, OwnershipTypeOK, LocksAreTold
<1> QED  BY <1>3, <1>4, <1>5 DEF OwnershipInv

LEMMA ClearKeeps ==
  ASSUME OwnershipInv, Clear
  PROVE  OwnershipInv'
  BY DEF OwnershipInv, OwnershipTypeOK, HasItsLock, LocksAreTold, Working, Clear

\* The invariant holds in every reachable state of the registry and its tasks.
THEOREM OwnershipInductive == OwnershipSpec => []OwnershipInv
<1>1. OwnershipInv /\ [OwnershipNext]_ownershipVars => OwnershipInv'
  <2> SUFFICES ASSUME OwnershipInv, [OwnershipNext]_ownershipVars PROVE OwnershipInv'
    OBVIOUS
  <2>1. CASE UNCHANGED ownershipVars
    BY <2>1 DEF ownershipVars, OwnershipInv, OwnershipTypeOK, HasItsLock, LocksAreTold, Working
  <2>2. CASE OwnershipNext
    BY <2>2, MarkReadyKeeps, DispatchKeeps, MoveKeeps, AcquireKeeps, UpdateKeeps, ReleaseKeeps,
       ClearKeeps DEF OwnershipNext
  <2> QED  BY <2>1, <2>2
<1> QED  BY OwnershipInitial, <1>1, PTL DEF OwnershipSpec

\* Of the tasks that have been told they own a file and are not over there is one
\* (AcquireLock, UpdateLockStatus and ReleaseLock in any order, task_runner.go:254).
THEOREM OneOwnerAlways == OwnershipSpec => []OneOwner
<1>1. OwnershipInv => OneOwner
  BY FineTaskAssumption DEF OwnershipInv, HasItsLock, OneOwner, GetOwner, GetActiveLocks, Free, Held
<1> QED  BY <1>1, OwnershipInductive, PTL
-----------------------------------------------------------------------------
(* Skill scope.                                                            *)

\* The least number of a set.
LEMMA LeastCase ==
  ASSUME NEW T \in SUBSET Nat, T # {}
  PROVE  \E n \in T : \A m \in T : n <= m
<1> DEFINE Below == {pair \in Nat \X Nat : pair[1] < pair[2]}
<1>1. IsWellFoundedOn(Below, Nat)
  BY NatLessThanWellFounded DEF OpToRel
<1>2. \A m, n \in Nat : m < n => <<m, n>> \in Below
  OBVIOUS
<1> HIDE DEF Below
<1>3. PICK n \in T : \A m \in T : <<m, n>> \notin Below
  BY <1>1, WFMin
<1>4. \A m \in T : ~(m < n)
  BY <1>2, <1>3, Zenon
<1> QED  BY <1>4

\* The recursion over the modifiers has a result for each number of them.
LEMMA ModifiedAdds ==
  ASSUME NEW yaml, NEW mods \in Seq(Modifier)
  PROVE  \E after : /\ after = Modified(yaml, mods)
                    /\ after[0] = [tags |-> yaml, seen |-> yaml]
                    /\ \A n \in 1..Len(mods) : after[n] = Modify(after[n - 1], mods[n])
<1> DEFINE M == Len(mods)
           start == [tags |-> yaml, seen |-> yaml]
           Adds(f, m) == f = [n \in 0..m |-> IF n = 0 THEN start ELSE Modify(f[n - 1], mods[n])]
           T == {m \in 0..M : ~ \E f : Adds(f, m)}
<1>1. M \in Nat
  BY LenProperties
<1> HIDE DEF start
<1>2. T = {}
  <2> SUFFICES ASSUME T # {}  PROVE FALSE
    OBVIOUS
  <2>0. T \in SUBSET Nat
    BY <1>1
  <2>1. PICK m \in T : \A k \in T : m <= k
    <3> HIDE DEF T
    <3> QED  BY <2>0, LeastCase
  <2>2. m \in 0..M /\ m \in Nat
    BY <1>1
  <2>3. CASE m = 0
    <3> DEFINE g == [n \in 0..0 |-> start]
    <3>1. g = [n \in 0..0 |-> IF n = 0 THEN start ELSE Modify(g[n - 1], mods[n])]
      OBVIOUS
    <3> QED  BY <2>3, <3>1
  <2>4. CASE m # 0
    <3>1. m - 1 \in 0..M /\ m - 1 \notin T
      <4> HIDE DEF T, M
      <4> QED  BY <1>1, <2>1, <2>2, <2>4
    <3>2. PICK f : Adds(f, m - 1)
      BY <3>1
    <3> DEFINE g == [n \in 0..m |-> IF n = m THEN Modify(f[m - 1], mods[m]) ELSE f[n]]
    <3>3. g = [n \in 0..m |-> IF n = 0 THEN start ELSE Modify(g[n - 1], mods[n])]
      <4>1. \A n \in 0..m : g[n] = IF n = 0 THEN start ELSE Modify(g[n - 1], mods[n])
        <5> TAKE n \in 0..m
        <5>1. CASE n = m
          <6>1. m - 1 \in 0..m /\ m - 1 # m
            BY <2>2, <2>4
          <6> QED  BY <2>2, <2>4, <5>1, <6>1
        <5>2. CASE n # m
          <6>1. n \in 0..(m - 1) /\ g[n] = f[n]
            BY <2>2, <5>2
          <6>2. f[n] = IF n = 0 THEN start ELSE Modify(f[n - 1], mods[n])
            BY <3>2, <6>1
          <6>3. n # 0 => n - 1 \in 0..m /\ n - 1 # m /\ g[n - 1] = f[n - 1]
            BY <2>2, <5>2
          <6> QED  BY <6>1, <6>2, <6>3
        <5> QED  BY <5>1, <5>2
      <4>2. g = [n \in 0..m |-> g[n]]
        OBVIOUS
      <4> HIDE DEF g
      <4> QED  BY <4>1, <4>2
    <3> QED  BY <3>3
  <2> QED  BY <2>3, <2>4
<1>3. M \in 0..M
  BY <1>1
<1>4. \E f : Adds(f, M)
  BY <1>2, <1>3
<1>5. PICK after : after = Modified(yaml, mods) /\ Adds(after, M)
  BY <1>4 DEF Modified, start
<1>6. after[0] = start /\ \A n \in 1..M : after[n] = Modify(after[n - 1], mods[n])
  BY <1>1, <1>5
<1> QED  BY <1>5, <1>6 DEF start

\* A tag of the role is left exactly when the skill's last word on it does not take
\* it away.
LEMMA LastWordDecides ==
  ASSUME NEW yaml, NEW mods \in Seq(Modifier), NEW t \in yaml
  PROVE  t \in MergeModifiers(yaml, mods) <=> ~LastWord(mods, t, "-")
<1> DEFINE M == Len(mods)
           LastSign(n) == \E i \in 1..n : /\ mods[i].sign = "-" /\ mods[i].tag = t
                                      /\ \A j \in 1..n : mods[j].tag = t => j <= i
<1>0. PICK after : /\ after = Modified(yaml, mods)
                   /\ after[0] = [tags |-> yaml, seen |-> yaml]
                   /\ \A n \in 1..M : after[n] = Modify(after[n - 1], mods[n])
  BY ModifiedAdds
<1> DEFINE Right(n) == /\ after[n].tags = after[n].seen
                       /\ t \in after[n].tags <=> ~LastSign(n)
           T == {n \in 0..M : ~Right(n)}
<1>1. M \in Nat /\ DOMAIN mods = 1..M /\ \A i \in 1..M : mods[i] \in Modifier
  BY LenProperties, ElementOfSeq
<1>2. after[0] = [tags |-> yaml, seen |-> yaml]
  BY <1>0
<1>3. \A n \in 1..M : after[n] = Modify(after[n - 1], mods[n])
  BY <1>0
<1>4. T = {}
  <2> SUFFICES ASSUME T # {}  PROVE FALSE
    OBVIOUS
  <2>0. T \in SUBSET Nat
    BY <1>1
  <2>1. PICK n \in T : \A k \in T : n <= k
    <3> HIDE DEF T
    <3> QED  BY <2>0, LeastCase
  <2>2. n \in 0..M /\ ~Right(n)
    OBVIOUS
  <2>3. n # 0
    <3>1. Right(0)
      BY <1>2
    <3> QED  BY <2>2, <3>1
  <2>4. n \in 1..M /\ n - 1 \in 0..M /\ n - 1 \notin T
    BY <1>1, <2>1, <2>2, <2>3
  <2>5. Right(n - 1)
    BY <2>4
  <2>6. PICK m, was, is : m = mods[n] /\ was = after[n - 1] /\ is = after[n]
    OBVIOUS
  <2>7. m \in Modifier /\ is = Modify(was, m)
    BY <1>1, <1>3, <2>4, <2>6
  <2>8. was.tags = was.seen /\ (t \in was.tags <=> ~LastSign(n - 1))
    BY <2>5, <2>6
  <2>9. is.tags = is.seen
    BY <2>7, <2>8 DEF Modify
  <2>10. CASE m.tag # t
    <3>1. t \in is.tags <=> t \in was.tags
      BY <2>7, <2>8, <2>10 DEF Modify
    <3>2. LastSign(n) <=> LastSign(n - 1)
      <4>1. \A i \in 1..n : mods[i].tag = t => i \in 1..(n - 1)
        BY <1>1, <2>4, <2>6, <2>10
      <4>2. 1..(n - 1) \subseteq 1..n
        BY <1>1, <2>4
      <4> QED  BY <4>1, <4>2
    <3> QED  BY <2>2, <2>6, <2>8, <2>9, <3>1, <3>2
  <2>11. CASE m.tag = t /\ m.sign = "-"
    <3>1. t \notin is.tags
      BY <2>7, <2>11 DEF Modify
    <3>2. n \in 1..n /\ \A j \in 1..n : j <= n
      BY <1>1, <2>4
    <3>3. LastSign(n)
      BY <2>6, <2>11, <3>2
    <3> QED  BY <2>2, <2>6, <2>9, <3>1, <3>3
  <2>12. CASE m.tag = t /\ m.sign = "+"
    <3>1. t \in is.tags
      BY <2>7, <2>8, <2>12 DEF Modify
    <3>2. ~LastSign(n)
      <4> SUFFICES ASSUME NEW i \in 1..n, mods[i].sign = "-", \A j \in 1..n : mods[j].tag = t => j <= i
                   PROVE  FALSE
        OBVIOUS
      <4>1. n \in 1..n
        BY <1>1, <2>4
      <4>2. n <= i
        BY <2>6, <2>12, <4>1
      <4>3. i = n
        BY <1>1, <2>4, <4>2
      <4> QED  BY <2>6, <2>12, <4>3
    <3> QED  BY <2>2, <2>6, <2>9, <3>1, <3>2
  <2> QED  BY <2>7, <2>10, <2>11, <2>12 DEF Modifier
<1>5. Right(M)
  <2>1. M \in 0..M
    BY <1>1
  <2> QED  BY <1>4, <2>1
<1>6. LastSign(M) <=> LastWord(mods, t, "-")
  <2>1. \A i \in 1..M : mods[i] = [sign |-> "-", tag |-> t] <=> mods[i].sign = "-" /\ mods[i].tag = t
    BY <1>1 DEF Modifier
  <2> HIDE DEF M
  <2> QED  BY <1>1, <2>1 DEF LastWord
<1> QED  BY <1>0, <1>5, <1>6 DEF MergeModifiers

Skills == [name : STRING, tags : Seq(Modifier)]

\* What holds of the files and of the answer.
SkillsInv ==
    /\ skills \in [scope : Scopes, local : LocalSkills, external : ExternalSkills,
                   answer : {skills.answer}]
    /\ \/ skills.answer = NoAnswerYet
       \/ \E role \in Role, read \in SUBSET Files, order \in Orders :
             skills.answer = [role |-> role, read |-> read, offered |-> BuildSkills(role, read, order)]

LEMMA SkillsStep == SkillsInv /\ [SkillsNext]_skills => SkillsInv'
<1> SUFFICES ASSUME SkillsInv, [SkillsNext]_skills  PROVE SkillsInv'
  OBVIOUS
<1>1. CASE UNCHANGED skills
  <2>1. /\ Files' = Files /\ Orders' = Orders
        /\ \A role, read, order : BuildSkills(role, read, order)' = BuildSkills(role, read, order)
    BY <1>1 DEF Files, Orders, BuildSkills, LoadScope, walkLocalSkills, walkExternalSkills
  <2> QED  BY <1>1, <2>1 DEF SkillsInv
<1>2. CASE SkillsNext
  <2>1. PICK role \in Role, read \in SUBSET Files, order \in Orders :
           skills' = [skills EXCEPT !.answer =
                       [role |-> role, read |-> read, offered |-> BuildSkills(role, read, order)]]
    BY <1>2 DEF SkillsNext, handleBrokerListSkills
  <2>2. /\ skills'.scope = skills.scope /\ skills'.local = skills.local
        /\ skills'.external = skills.external
    BY <2>1
  <2>3. skills'.answer =
           [role |-> role, read |-> read, offered |-> BuildSkills(role, read, order)]
    BY <2>1 DEF SkillsInv
  <2>4. skills' \in [scope : Scopes, local : LocalSkills, external : ExternalSkills,
                     answer : {skills'.answer}]
    BY <2>1, <2>3 DEF SkillsInv
  <2>5. /\ Files' = Files /\ Orders' = Orders
        /\ BuildSkills(role, read, order)' = BuildSkills(role, read, order)
    BY <2>2 DEF Files, Orders, BuildSkills, LoadScope, walkLocalSkills, walkExternalSkills
  <2> QED  BY <2>3, <2>4, <2>5 DEF SkillsInv
<1> QED  BY <1>1, <1>2

\* The files stay as they are, and an answer is built from them.
THEOREM SkillsInductive == SkillsSpec => []SkillsInv
<1>1. SkillsInit => SkillsInv
  BY DEF SkillsInit, SkillsInv
<1> QED  BY <1>1, SkillsStep, PTL DEF SkillsSpec

\* The filter lets a skill pass exactly when the role is entitled to it.
LEMMA OfferedIfEntitled ==
  ASSUME NEW role, NEW scope, NEW skill \in Skills, scope.version \in Nat, scope.version > 0
  PROVE  IsOffered(role, scope, mergeTags(skill.tags, role, scope))
         <=> Entitled(role, scope, skill)
<1> DEFINE merged == mergeTags(skill.tags, role, scope)
           yaml == scope.roles[role]
<1>1. CASE Wildcard(role) \/ Unscoped(scope)
  BY <1>1 DEF IsOffered, Entitled
<1>2. CASE ~Wildcard(role) /\ ~Unscoped(scope) /\ ~InScopeFile(role, scope)
  <2>1. merged.scope = {}
    BY <1>2 DEF mergeTags, ScopeOfRole
  <2> QED  BY <1>2, <2>1 DEF IsOffered, Entitled
<1>3. CASE ~Wildcard(role) /\ ~Unscoped(scope) /\ InScopeFile(role, scope)
  <2> DEFINE left == MergeModifiers(yaml, skill.tags)
  <2>1. skill.tags \in Seq(Modifier) /\ scope.version # 0
    BY DEF Skills
  <2>2. ScopeOfRole(role, scope) = {role}
    BY <1>3, <2>1 DEF ScopeOfRole
  <2>3. merged.scope = IF skill.tags # <<>> /\ left \cap yaml = {} THEN {} ELSE {role}
    BY <1>3, <2>2 DEF mergeTags, tagIntersection
  <2>4. \A t \in yaml : t \in left <=> ~LastWord(skill.tags, t, "-")
    BY <2>1, LastWordDecides
  <2> HIDE DEF left, merged
  <2>5. merged.scope # {} <=> skill.tags = <<>> \/ \E t \in yaml : t \in left
    BY <2>3
  <2>6. merged.scope # {} <=> Entitled(role, scope, skill)
    BY <1>3, <2>4, <2>5 DEF Entitled
  <2> QED  BY <1>3, <2>6 DEF IsOffered, merged
<1> QED  BY <1>1, <1>2, <1>3

\* What an answer offers, file by file.
IsAnswer(role, read, order, scope, offered, names) ==
    /\ \A s \in offered : <<s.source, s.file>> \in read
    /\ \A s \in offered : s.source \in {"local", "external"}
    /\ \A i \in DOMAIN skills.local : <<"local", i>> \in read =>
          ((\E s \in offered : s.source = "local" /\ s.file = i)
           <=> Entitled(role, scope, skills.local[i]))
    /\ \A s \in offered : s.source = "local" => s.name \in names
    /\ names \subseteq {s.name : s \in {u \in offered : u.source = "local"}}
    /\ \A s \in offered : s.source = "external" =>
          /\ s.file \in DOMAIN skills.external /\ s.name = skills.external[s.file].name
          /\ s.name \notin names
          /\ Entitled(role, scope, skills.external[s.file])
          /\ s = SkillSummary("external", s.file, skills.external[s.file], role, scope)
          /\ \A k \in DOMAIN skills.external :
                /\ <<"external", k>> \in read
                /\ skills.external[k].name = s.name
                /\ Entitled(role, scope, skills.external[k])
                => order[s.file] <= order[k]
    /\ \A j \in DOMAIN skills.external :
          /\ <<"external", j>> \in read
          /\ skills.external[j].name \notin names
          /\ Entitled(role, scope, skills.external[j])
          /\ \A k \in DOMAIN skills.external :
                /\ <<"external", k>> \in read
                /\ skills.external[k].name = skills.external[j].name
                /\ Entitled(role, scope, skills.external[k])
                => order[j] <= order[k]
          => SkillSummary("external", j, skills.external[j], role, scope) \in offered

LEMMA WhatIsOffered ==
  ASSUME SkillsInv, NEW role, NEW read \in SUBSET Files, NEW order \in Orders,
         NEW scope, scope = LoadScope(<<"scope", 1>> \in read), scope.version > 0,
         NEW offered, offered = BuildSkills(role, read, order),
         NEW names, \A n : n \in names <=> \E s \in walkLocalSkills(read, role, scope) : n = s.name
  PROVE  IsAnswer(role, read, order, scope, offered, names)
<1> DEFINE local == walkLocalSkills(read, role, scope)
           external == walkExternalSkills(read, role, scope, names, order)
<1>1. offered = local \cup external
  <2>1. names = {s.name : s \in local}
    OBVIOUS
  <2> QED  BY <2>1 DEF BuildSkills
<1>2. scope.version \in Nat
  BY SkillsAssumption DEF LoadScope, MissingScope, SkillsInv
<1>3. skills.local \in Seq(Skills) /\ skills.external \in Seq(Skills)
  BY SkillsAssumption DEF Skills, SkillsInv
<1>4. /\ \A i \in DOMAIN skills.local : skills.local[i] \in Skills
      /\ \A i \in DOMAIN skills.external : skills.external[i] \in Skills
  BY <1>3, LenProperties, ElementOfSeq
<1>5. /\ \A i \in DOMAIN skills.local :
            IsOffered(role, scope, mergeTags(skills.local[i].tags, role, scope))
            <=> Entitled(role, scope, skills.local[i])
      /\ \A i \in DOMAIN skills.external :
            IsOffered(role, scope, mergeTags(skills.external[i].tags, role, scope))
            <=> Entitled(role, scope, skills.external[i])
  BY <1>2, <1>4, OfferedIfEntitled
<1>6. \A source, i, skill :
         LET s == SkillSummary(source, i, skill, role, scope)
         IN  s.source = source /\ s.file = i /\ s.name = skill.name
  BY DEF SkillSummary
<1>7. \A s : s \in local <=>
         \E i \in DOMAIN skills.local :
            /\ <<"local", i>> \in read
            /\ Entitled(role, scope, skills.local[i])
            /\ s = SkillSummary("local", i, skills.local[i], role, scope)
  BY <1>5 DEF walkLocalSkills
<1> DEFINE Passes(j) == /\ <<"external", j>> \in read
                        /\ skills.external[j].name \notin names
                        /\ Entitled(role, scope, skills.external[j])
           First(j) == \A k \in DOMAIN skills.external :
                          Passes(k) /\ skills.external[k].name = skills.external[j].name
                              => order[j] <= order[k]
<1>8. \A s : s \in external <=>
         \E j \in DOMAIN skills.external :
            /\ Passes(j) /\ First(j)
            /\ s = SkillSummary("external", j, skills.external[j], role, scope)
  BY <1>5 DEF walkExternalSkills
<1>9. \A n : n \in names <=> \E s \in local : n = s.name
  OBVIOUS
<1> HIDE DEF local, external
<1>10. \A s \in local : /\ s.source = "local" /\ s.file \in DOMAIN skills.local
                        /\ <<"local", s.file>> \in read /\ s.name \in names
                        /\ Entitled(role, scope, skills.local[s.file])
  <2> TAKE s \in local
  <2>1. PICK i \in DOMAIN skills.local :
           /\ <<"local", i>> \in read
           /\ Entitled(role, scope, skills.local[i])
           /\ s = SkillSummary("local", i, skills.local[i], role, scope)
    BY <1>7
  <2>2. s.source = "local" /\ s.file = i
    BY <1>6, <2>1
  <2>3. s.name \in names
    BY <1>9
  <2> QED  BY <2>1, <2>2, <2>3
<1>11. \A s \in external :
          /\ s.source = "external" /\ s.file \in DOMAIN skills.external
          /\ Passes(s.file) /\ First(s.file)
          /\ s.name = skills.external[s.file].name
          /\ s = SkillSummary("external", s.file, skills.external[s.file], role, scope)
  <2> TAKE s \in external
  <2>1. PICK j \in DOMAIN skills.external :
           /\ Passes(j) /\ First(j)
           /\ s = SkillSummary("external", j, skills.external[j], role, scope)
    BY <1>8
  <2>2. s.source = "external" /\ s.file = j /\ s.name = skills.external[j].name
    BY <1>6, <2>1
  <2> HIDE DEF Passes, First
  <2> QED  BY <2>1, <2>2
<1>12. ASSUME NEW i \in DOMAIN skills.local, <<"local", i>> \in read
       PROVE  (\E s \in offered : s.source = "local" /\ s.file = i)
              <=> Entitled(role, scope, skills.local[i])
  <2>1. ASSUME Entitled(role, scope, skills.local[i])
        PROVE  \E s \in offered : s.source = "local" /\ s.file = i
    <3>1. SkillSummary("local", i, skills.local[i], role, scope) \in local
      BY <1>7, <1>12, <2>1
    <3> QED  BY <1>1, <1>6, <3>1
  <2>2. ASSUME NEW s \in offered, s.source = "local", s.file = i
        PROVE  Entitled(role, scope, skills.local[i])
    BY <1>1, <1>10, <1>11, <2>2
  <2> QED  BY <2>1, <2>2
<1>13. names \subseteq {s.name : s \in {u \in offered : u.source = "local"}}
  BY <1>1, <1>9, <1>10
<1>14. ASSUME NEW s \in offered, s.source = "external"
       PROVE  /\ s.file \in DOMAIN skills.external /\ s.name = skills.external[s.file].name
              /\ s.name \notin names
              /\ Entitled(role, scope, skills.external[s.file])
              /\ s = SkillSummary("external", s.file, skills.external[s.file], role, scope)
              /\ \A k \in DOMAIN skills.external :
                    /\ <<"external", k>> \in read
                    /\ skills.external[k].name = s.name
                    /\ Entitled(role, scope, skills.external[k])
                    => order[s.file] <= order[k]
  <2>1. s \in external
    BY <1>1, <1>10, <1>14
  <2> QED  BY <1>11, <2>1
<1>15. ASSUME NEW j \in DOMAIN skills.external, <<"external", j>> \in read,
              skills.external[j].name \notin names,
              Entitled(role, scope, skills.external[j]),
              \A k \in DOMAIN skills.external :
                 /\ <<"external", k>> \in read
                 /\ skills.external[k].name = skills.external[j].name
                 /\ Entitled(role, scope, skills.external[k])
                 => order[j] <= order[k]
       PROVE  SkillSummary("external", j, skills.external[j], role, scope) \in offered
  BY <1>1, <1>8, <1>15
<1>16. \A s \in offered : <<s.source, s.file>> \in read /\ s.source \in {"local", "external"}
  BY <1>1, <1>10, <1>11
<1>17. \A s \in offered : s.source = "local" => s.name \in names
  BY <1>1, <1>10, <1>11
<1> HIDE DEF Passes, First
<1> QED  BY <1>12, <1>13, <1>14, <1>15, <1>16, <1>17 DEF IsAnswer

\* A role is offered exactly what the scope file and the last words of the skills
\* leave it, whatever the files, and one skill of a name that is not local.
THEOREM AlwaysOfferedByScope == SkillsSpec => []OfferedByScope
<1>1. ASSUME SkillsInv  PROVE OfferedByScope
  <2> DEFINE answer == skills.answer
             scope == LoadScope(<<"scope", 1>> \in answer.read)
             Seen(source, i) == \E s \in answer.offered : s.source = source /\ s.file = i
             Names(source) == {s.name : s \in {u \in answer.offered : u.source = source}}
  <2> SUFFICES ASSUME answer.role # "none", scope.version > 0
               PROVE  /\ \A i \in DOMAIN skills.local : <<"local", i>> \in answer.read =>
                            (Seen("local", i) <=> Entitled(answer.role, scope, skills.local[i]))
                      /\ \A i \in DOMAIN skills.external : <<"external", i>> \in answer.read =>
                            IF Entitled(answer.role, scope, skills.external[i])
                            THEN skills.external[i].name \in Names("local") \cup Names("external")
                            ELSE ~Seen("external", i)
                      /\ \A s, u \in answer.offered :
                            s # u /\ s.source = "external" => s.name # u.name
    BY DEF OfferedByScope
  <2>1. answer # NoAnswerYet
    BY DEF NoAnswerYet
  <2>2. PICK role \in Role, read \in SUBSET Files, order \in Orders :
           answer = [role |-> role, read |-> read, offered |-> BuildSkills(role, read, order)]
    BY <1>1, <2>1 DEF SkillsInv
  <2>3. PICK offered : offered = BuildSkills(role, read, order)
    OBVIOUS
  <2>4. answer.role = role /\ answer.read = read /\ answer.offered = offered
    BY <2>2, <2>3
  <2>5. PICK sc : sc = LoadScope(<<"scope", 1>> \in read)
    OBVIOUS
  <2>6. PICK names : \A n : n \in names <=> \E s \in walkLocalSkills(read, role, sc) : n = s.name
    <3>1. \A n : n \in {s.name : s \in walkLocalSkills(read, role, sc)}
                <=> \E s \in walkLocalSkills(read, role, sc) : n = s.name
      OBVIOUS
    <3> QED  BY <3>1
  <2>7. scope = sc /\ sc.version > 0
    BY <2>4, <2>5
  <2> HIDE DEF scope, answer
  <2>a. IsAnswer(role, read, order, sc, offered, names)
    BY <1>1, <2>3, <2>5, <2>6, <2>7, WhatIsOffered
  <2>8. /\ \A i \in DOMAIN skills.local : <<"local", i>> \in read =>
              ((\E s \in offered : s.source = "local" /\ s.file = i)
               <=> Entitled(role, sc, skills.local[i]))
        /\ \A s \in offered : s.source = "local" => s.name \in names
        /\ \A s \in offered : s.source \in {"local", "external"}
        /\ names \subseteq {s.name : s \in {u \in offered : u.source = "local"}}
    BY <2>a DEF IsAnswer
  <2>9. ASSUME NEW s \in offered, s.source = "external"
        PROVE  /\ s.file \in DOMAIN skills.external /\ s.name = skills.external[s.file].name
               /\ s.name \notin names
               /\ <<"external", s.file>> \in read
               /\ Entitled(role, sc, skills.external[s.file])
               /\ s = SkillSummary("external", s.file, skills.external[s.file], role, sc)
               /\ \A k \in DOMAIN skills.external :
                     /\ <<"external", k>> \in read
                     /\ skills.external[k].name = s.name
                     /\ Entitled(role, sc, skills.external[k])
                     => order[s.file] <= order[k]
    BY <2>9, <2>a DEF IsAnswer
  <2>10. /\ order \in [DOMAIN skills.external -> DOMAIN skills.external]
         /\ \A i, j \in DOMAIN skills.external : order[i] = order[j] => i = j
         /\ \A j \in DOMAIN skills.external : order[j] \in Nat
    <3>1. skills.external \in Seq(Skills)
      BY <1>1, SkillsAssumption DEF SkillsInv, Skills
    <3>2. DOMAIN skills.external \subseteq Nat
      BY <3>1, LenProperties
    <3>3. /\ order \in [DOMAIN skills.external -> DOMAIN skills.external]
          /\ \A i, j \in DOMAIN skills.external : order[i] = order[j] => i = j
      BY DEF Orders, IsInjective
    <3> QED  BY <3>2, <3>3
  <2>11. ASSUME NEW i \in DOMAIN skills.external, <<"external", i>> \in read,
                Entitled(role, sc, skills.external[i]), skills.external[i].name \notin names
         PROVE  \E s \in offered : s.source = "external" /\ s.name = skills.external[i].name
    <3> DEFINE Rivals == {j \in DOMAIN skills.external :
                            /\ <<"external", j>> \in read
                            /\ skills.external[j].name = skills.external[i].name
                            /\ Entitled(role, sc, skills.external[j])}
               Ranks == {order[j] : j \in Rivals}
    <3>1. Ranks \in SUBSET Nat /\ Ranks # {}
      <4>1. \A j \in Rivals : order[j] \in Nat
        BY <2>10
      <4>2. i \in Rivals
        BY <2>11
      <4> HIDE DEF Rivals
      <4> QED  BY <4>1, <4>2
    <3>2. PICK p \in Ranks : \A q \in Ranks : p <= q
      <4> HIDE DEF Ranks
      <4> QED  BY <3>1, LeastCase
    <3>3. PICK j \in Rivals : p = order[j]
      OBVIOUS
    <3>4. \A k \in Rivals : order[j] <= order[k]
      BY <3>2, <3>3
    <3>5. SkillSummary("external", j, skills.external[j], role, sc) \in offered
      BY <2>11, <2>a, <3>4 DEF IsAnswer
    <3> QED  BY <3>5 DEF SkillSummary
  <2>12. ASSUME NEW i \in DOMAIN skills.external, <<"external", i>> \in read
         PROVE  IF Entitled(role, sc, skills.external[i])
                THEN skills.external[i].name \in {s.name : s \in {u \in offered : u.source = "local"}}
                                            \cup {s.name : s \in {u \in offered : u.source = "external"}}
                ELSE ~ \E s \in offered : s.source = "external" /\ s.file = i
    BY <2>8, <2>9, <2>11, <2>12
  <2>13. ASSUME NEW s \in offered, NEW u \in offered, s # u, s.source = "external"
         PROVE  s.name # u.name
    <3> SUFFICES ASSUME s.name = u.name  PROVE FALSE
      OBVIOUS
    <3>1. u.source = "external"
      BY <2>8, <2>9, <2>13
    <3>2. order[s.file] <= order[u.file] /\ order[u.file] <= order[s.file]
      <4>1. /\ s.file \in DOMAIN skills.external /\ <<"external", s.file>> \in read
            /\ skills.external[s.file].name = s.name
            /\ Entitled(role, sc, skills.external[s.file])
        BY <2>9, <2>13
      <4>2. /\ u.file \in DOMAIN skills.external /\ <<"external", u.file>> \in read
            /\ skills.external[u.file].name = u.name
            /\ Entitled(role, sc, skills.external[u.file])
        BY <2>9, <3>1
      <4> QED  BY <2>9, <2>13, <3>1, <4>1, <4>2
    <3>3. s.file = u.file
      <4>1. s.file \in DOMAIN skills.external /\ u.file \in DOMAIN skills.external
        BY <2>9, <2>13, <3>1
      <4>2. order[s.file] = order[u.file]
        BY <2>10, <3>2, <4>1
      <4> QED  BY <2>10, <4>1, <4>2
    <3> QED  BY <2>9, <2>13, <3>1, <3>3
  <2> QED  BY <2>4, <2>7, <2>8, <2>12, <2>13
<1> QED  BY <1>1, SkillsInductive, PTL

\* An answer is one to a role that asks, made of files that could be read.
THEOREM SkillsTypeCorrect == SkillsSpec => []SkillsTypeOK
<1>1. ASSUME SkillsInv  PROVE SkillsTypeOK
  <2>1. CASE skills.answer = NoAnswerYet
    BY <2>1 DEF SkillsTypeOK, NoAnswerYet
  <2>2. ASSUME NEW role \in Role, NEW read \in SUBSET Files, NEW order \in Orders,
               skills.answer = [role |-> role, read |-> read,
                                offered |-> BuildSkills(role, read, order)]
        PROVE  SkillsTypeOK
    <3>1. ASSUME NEW s \in BuildSkills(role, read, order)  PROVE <<s.source, s.file>> \in read
      <4>1. PICK source, i, skill, sc :
               /\ <<source, i>> \in read
               /\ s = SkillSummary(source, i, skill, role, sc)
        BY DEF BuildSkills, walkLocalSkills, walkExternalSkills
      <4> QED  BY <4>1 DEF SkillSummary
    <3> QED  BY <2>2, <3>1 DEF SkillsTypeOK
  <2> QED  BY <1>1, <2>1, <2>2 DEF SkillsInv
<1> QED  BY <1>1, SkillsInductive, PTL

(***************************************************************************)
(*                      The broker, as requests see it                     *)
(*                                                                         *)
(* The types of the registry, the clients, the roles and the archive.  A   *)
(* process is of a server with a command and a client of one that is       *)
(* registered: an activation may try several transports, and an import, a  *)
(* deactivation or a failed start each leave one of the tables behind the  *)
(* other, so every handler has to keep both facts for all servers at once. *)
(***************************************************************************)

ServerEntry == [type : Transport, up : BOOLEAN, tools : Transport \cup {"none"}]

\* A registry: only a server with a command has a process.
IsRegistry(entries) ==
    /\ entries = [n \in DOMAIN entries |-> entries[n]]
    /\ DOMAIN entries \subseteq Server
    /\ \A n \in DOMAIN entries :
          entries[n] \in ServerEntry /\ (entries[n].up => entries[n].type = "stdio")

IsLock(lock) == lock \subseteq [name : Server, type : Transport]

BrokerFields(b) ==
    b = [entries |-> b.entries, clients |-> b.clients, roles |-> b.roles,
         archive |-> b.archive, asked |-> b.asked, answer |-> b.answer]

IsBroker(b) ==
    /\ BrokerFields(b)
    /\ IsRegistry(b.entries)
    /\ b.clients \subseteq DOMAIN b.entries
    /\ DOMAIN b.roles \subseteq Server
    /\ IsLock(b.archive.lock)

BrokerInv == IsBroker(broker) /\ broker.asked \in 0..MaxBrokerRequests

LEMMA BrokerBound ==
  /\ MaxBrokerRequests \in Nat /\ 0 \in 0..MaxBrokerRequests
  /\ \A n \in 0..MaxBrokerRequests : n < MaxBrokerRequests => n + 1 \in 0..MaxBrokerRequests
<1>1. MaxBrokerRequests \in Nat
  BY BrokerAssumption
<1> QED  BY <1>1

LEMMA RespondKeeps ==
  ASSUME BrokerInv, NEW after, IsBroker(after), after.asked = broker.asked, NEW a,
         Respond(after, a)
  PROVE  BrokerInv'
<1>1. broker' = [after EXCEPT !.asked = @ + 1, !.answer = a] /\ broker.asked < MaxBrokerRequests
  BY DEF Respond
<1>2. /\ broker'.entries = after.entries /\ broker'.clients = after.clients
      /\ broker'.roles = after.roles /\ broker'.archive = after.archive
      /\ broker'.asked = broker.asked + 1
      /\ broker' = [entries |-> broker'.entries, clients |-> broker'.clients,
                    roles |-> broker'.roles, archive |-> broker'.archive,
                    asked |-> broker'.asked, answer |-> broker'.answer]
  BY <1>1 DEF IsBroker, BrokerFields
<1>3. IsBroker(broker)'
  BY <1>2 DEF IsBroker, BrokerFields
<1>4. broker'.asked \in 0..MaxBrokerRequests
  BY <1>1, <1>2, BrokerBound DEF BrokerInv
<1> QED  BY <1>3, <1>4 DEF BrokerInv

\* A broker with another registry, other clients, other roles, or another archive.
LEMMA EntriesReplaced ==
  ASSUME NEW b, IsBroker(b), NEW entries, IsRegistry(entries), b.clients \subseteq DOMAIN entries
  PROVE  /\ IsBroker([b EXCEPT !.entries = entries])
         /\ [b EXCEPT !.entries = entries].asked = b.asked
         /\ [b EXCEPT !.entries = entries].entries = entries
  BY DEF IsBroker, BrokerFields

LEMMA RegistryReplaced ==
  ASSUME NEW b, IsBroker(b), NEW entries, IsRegistry(entries), NEW clients,
         clients \subseteq DOMAIN entries,
         NEW c, c = [entries |-> entries, clients |-> clients, roles |-> b.roles,
                     archive |-> b.archive, asked |-> b.asked, answer |-> b.answer]
  PROVE  IsBroker(c) /\ c.asked = b.asked
  BY DEF IsBroker, BrokerFields

LEMMA RolesReplaced ==
  ASSUME NEW b, IsBroker(b), NEW roles, DOMAIN roles \subseteq Server
  PROVE  /\ IsBroker([b EXCEPT !.roles = roles])
         /\ [b EXCEPT !.roles = roles].asked = b.asked
  BY DEF IsBroker, BrokerFields

LEMMA ArchiveReplaced ==
  ASSUME NEW b, IsBroker(b), NEW archive, IsLock(archive.lock)
  PROVE  /\ IsBroker([b EXCEPT !.archive = archive])
         /\ [b EXCEPT !.archive = archive].asked = b.asked
  BY DEF IsBroker, BrokerFields

\* One entry is replaced.
LEMMA EntryReplaced ==
  ASSUME NEW entries, IsRegistry(entries), NEW n \in DOMAIN entries,
         NEW server \in ServerEntry, server.up => server.type = "stdio"
  PROVE  /\ IsRegistry([entries EXCEPT ![n] = server])
         /\ DOMAIN [entries EXCEPT ![n] = server] = DOMAIN entries
<1> DEFINE new == [entries EXCEPT ![n] = server]
<1>1. /\ DOMAIN new = DOMAIN entries
      /\ \A m \in DOMAIN entries : new[m] = IF m = n THEN server ELSE entries[m]
      /\ new = [m \in DOMAIN new |-> new[m]]
  BY DEF IsRegistry
<1> HIDE DEF new
<1>2. IsRegistry(new)
  BY <1>1 DEF IsRegistry
<1> QED  BY <1>1, <1>2 DEF new

LEMMA RegisterKeeps ==
  ASSUME NEW b, IsBroker(b), NEW n \in Server, NEW type \in Transport
  PROVE  /\ IsBroker(Register(b, n, type)) /\ Register(b, n, type).asked = b.asked
         /\ n \in DOMAIN Register(b, n, type).entries
<1> DEFINE server == [type |-> type, up |-> FALSE, tools |-> "none"]
           new == [m \in DOMAIN b.entries \cup {n} |-> IF m = n THEN server ELSE b.entries[m]]
<1>1. server \in ServerEntry /\ ~server.up
  BY DEF ServerEntry
<1>2. Register(b, n, type) = [b EXCEPT !.entries = new]
  BY Zenon DEF Register
<1> HIDE DEF server
<1>3. /\ DOMAIN new = DOMAIN b.entries \cup {n}
      /\ \A m \in DOMAIN new : new[m] = IF m = n THEN server ELSE b.entries[m]
      /\ new = [m \in DOMAIN new |-> new[m]]
  OBVIOUS
<1> HIDE DEF new
<1>4. IsRegistry(new) /\ b.clients \subseteq DOMAIN new
  BY <1>1, <1>3 DEF IsBroker, IsRegistry
<1> QED  BY <1>2, <1>3, <1>4, EntriesReplaced

LEMMA ActivatedKeeps ==
  ASSUME NEW b, IsBroker(b), NEW n \in DOMAIN b.entries, NEW type \in Transport
  PROVE  IsBroker(Activated(b, n, type)) /\ Activated(b, n, type).asked = b.asked
<1> DEFINE server == [type |-> type, up |-> type = "stdio", tools |-> type]
           new == [b.entries EXCEPT ![n] = server]
           clients == IF type = "http" THEN b.clients \cup {n} ELSE b.clients
<1>1. server \in ServerEntry /\ (server.up => server.type = "stdio")
  BY DEF ServerEntry, Transport
<1>2. Activated(b, n, type) = [b EXCEPT !.entries = new, !.clients = clients]
  BY DEF Activated, IsBroker
<1>3. clients \subseteq DOMAIN b.entries
  BY DEF IsBroker, BrokerFields
<1> HIDE DEF server, clients
<1>4. IsRegistry(new) /\ DOMAIN new = DOMAIN b.entries
  BY <1>1, EntryReplaced DEF IsBroker, BrokerFields
<1>5. clients \subseteq DOMAIN new
  BY <1>3, <1>4
<1> HIDE DEF new
<1>6. PICK c : c = Activated(b, n, type)
  OBVIOUS
<1>7. c = [b EXCEPT !.entries = new, !.clients = clients]
  BY <1>2, <1>6
<1>8. c = [entries |-> new, clients |-> clients, roles |-> b.roles,
           archive |-> b.archive, asked |-> b.asked, answer |-> b.answer]
  BY <1>7 DEF IsBroker, BrokerFields
<1>9. IsBroker(c) /\ c.asked = b.asked
  BY <1>4, <1>5, <1>8, RegistryReplaced
<1> QED  BY <1>6, <1>9

\* A process that is no more.
LEMMA DownKeeps ==
  ASSUME NEW b, IsBroker(b), NEW n \in DOMAIN b.entries
  PROVE  /\ IsBroker([b EXCEPT !.entries[n].up = FALSE])
         /\ [b EXCEPT !.entries[n].up = FALSE].asked = b.asked
<1> DEFINE server == [b.entries[n] EXCEPT !.up = FALSE]
           new == [b.entries EXCEPT ![n] = server]
<1>1. server \in ServerEntry /\ ~server.up
  BY DEF IsBroker, IsRegistry, ServerEntry
<1>2. [b EXCEPT !.entries[n].up = FALSE] = [b EXCEPT !.entries = new]
  BY DEF IsBroker, BrokerFields
<1> HIDE DEF server
<1>3. IsRegistry(new) /\ DOMAIN new = DOMAIN b.entries
  BY <1>1, EntryReplaced DEF IsBroker, BrokerFields
<1> HIDE DEF new
<1>4. b.clients \subseteq DOMAIN new
  BY <1>3 DEF IsBroker, BrokerFields
<1> QED  BY <1>2, <1>3, <1>4, EntriesReplaced

LEMMA ActivationKeeps ==
  ASSUME BrokerInv, NEW b, IsBroker(b), b.asked = broker.asked, NEW n \in DOMAIN b.entries,
         NEW menu, \A i \in DOMAIN menu : menu[i] \in Transport, Activation(b, n, menu)
  PROVE  BrokerInv'
<1>1. PICK r \in ActivateMCPServerWithTransport(b, n, menu) :
         Respond(r.after, [op |-> "activate", ok |-> r.ok])
  BY DEF Activation
<1>2. IsBroker(r.after) /\ r.after.asked = broker.asked
  <2>1. \/ \E i \in DOMAIN menu : r = [after |-> Activated(b, n, menu[i]), ok |-> TRUE]
        \/ \E c \in {b, [b EXCEPT !.entries[n].up = FALSE]} : r = [after |-> c, ok |-> FALSE]
    BY <1>1, Zenon DEF ActivateMCPServerWithTransport
  <2>2. \/ \E type \in Transport : r.after = Activated(b, n, type)
        \/ r.after \in {b, [b EXCEPT !.entries[n].up = FALSE]}
    BY <2>1
  <2>3. ASSUME NEW type \in Transport, r.after = Activated(b, n, type)
        PROVE  IsBroker(r.after) /\ r.after.asked = broker.asked
    BY <2>3, ActivatedKeeps
  <2>4. CASE r.after = [b EXCEPT !.entries[n].up = FALSE]
    BY <2>4, DownKeeps
  <2> QED  BY <2>2, <2>3, <2>4
<1> QED  BY <1>1, <1>2, RespondKeeps

LEMMA ExportKeeps ==
  ASSUME BrokerInv, NEW key
  PROVE  IsBroker(ExportProfile(key)) /\ ExportProfile(key).asked = broker.asked
<1> DEFINE lock == {[name |-> n, type |-> broker.entries[n].type] : n \in DOMAIN broker.entries}
           archive == [key |-> key, lock |-> lock]
<1>1. ExportProfile(key) = [broker EXCEPT !.archive = archive]
  BY Zenon DEF ExportProfile
<1>2. IsLock(lock)
  BY DEF BrokerInv, IsBroker, IsRegistry, ServerEntry, IsLock
<1> HIDE DEF lock
<1>3. IsLock(archive.lock)
  BY <1>2
<1> HIDE DEF archive
<1> QED  BY <1>1, <1>3, ArchiveReplaced DEF BrokerInv

LEMMA ImportKeeps ==
  ASSUME BrokerInv
  PROVE  IsBroker(ImportProfile) /\ ImportProfile.asked = broker.asked
<1> DEFINE added == {m \in broker.archive.lock : ~Known(m.name) /\ m.type # "http"}
           server == [type |-> "stdio", up |-> FALSE, tools |-> "none"]
           new == [n \in DOMAIN broker.entries \cup {m.name : m \in added} |->
                     IF n \in DOMAIN broker.entries THEN broker.entries[n] ELSE server]
<1>1. ImportProfile = [broker EXCEPT !.entries = new]
  BY Zenon DEF ImportProfile
<1>2. server \in ServerEntry /\ ~server.up
  BY DEF ServerEntry, Transport
<1>3. {m.name : m \in added} \subseteq Server
  BY DEF BrokerInv, IsBroker, IsLock
<1> HIDE DEF server, added
<1>4. /\ DOMAIN new = DOMAIN broker.entries \cup {m.name : m \in added}
      /\ \A n \in DOMAIN new :
            new[n] = IF n \in DOMAIN broker.entries THEN broker.entries[n] ELSE server
      /\ new = [n \in DOMAIN new |-> new[n]]
  OBVIOUS
<1> HIDE DEF new
<1>5. IsRegistry(new) /\ broker.clients \subseteq DOMAIN new
  BY <1>2, <1>3, <1>4 DEF BrokerInv, IsBroker, IsRegistry
<1> QED  BY <1>1, <1>5, EntriesReplaced DEF BrokerInv

LEMMA DeactivationKeeps ==
  ASSUME BrokerInv, NEW n \in Server, DeactivateMCPServer(n)
  PROVE  BrokerInv'
<1> DEFINE new == [m \in DOMAIN broker.entries \ {n} |-> broker.entries[m]]
           clients == broker.clients \ {n}
<1>1. PICK after :
         /\ after = [broker EXCEPT !.clients = clients, !.entries = new]
         /\ \E a : Respond(after, a) \/ Respond(broker, a)
  BY Zenon DEF DeactivateMCPServer
<1>2. /\ DOMAIN new = DOMAIN broker.entries \ {n}
      /\ \A m \in DOMAIN new : new[m] = broker.entries[m]
      /\ new = [m \in DOMAIN new |-> new[m]]
  OBVIOUS
<1>3. clients \subseteq DOMAIN new
  BY <1>2 DEF BrokerInv, IsBroker
<1> HIDE DEF new, clients
<1>4. IsRegistry(new)
  BY <1>2 DEF BrokerInv, IsBroker, IsRegistry
<1>5. after = [entries |-> new, clients |-> clients, roles |-> broker.roles,
               archive |-> broker.archive, asked |-> broker.asked, answer |-> broker.answer]
  BY <1>1 DEF BrokerInv, IsBroker, BrokerFields
<1>6. IsBroker(after) /\ after.asked = broker.asked
  BY <1>3, <1>4, <1>5, RegistryReplaced DEF BrokerInv
<1> QED  BY <1>1, <1>6, RespondKeeps DEF BrokerInv

LEMMA AccessKeeps ==
  ASSUME BrokerInv, NEW role, NEW n \in Server
  PROVE  /\ IsBroker(Grant(role, n)) /\ Grant(role, n).asked = broker.asked
         /\ IsBroker(Revoke(role, n)) /\ Revoke(role, n).asked = broker.asked
<1> DEFINE more == [m \in DOMAIN broker.roles \cup {n} |->
                      (IF m \in DOMAIN broker.roles THEN broker.roles[m] ELSE {})
                         \cup (IF m = n THEN {role} ELSE {})]
           fewer == [broker.roles EXCEPT ![n] = @ \ {role}]
<1>1. Grant(role, n) = [broker EXCEPT !.roles = more]
  BY Zenon DEF Grant
<1>2. DOMAIN more = DOMAIN broker.roles \cup {n}
  OBVIOUS
<1>3. /\ Revoke(role, n) = broker \/ Revoke(role, n) = [broker EXCEPT !.roles = fewer]
      /\ DOMAIN fewer = DOMAIN broker.roles
  BY DEF Revoke
<1> HIDE DEF more, fewer
<1>4. IsBroker(broker) /\ DOMAIN more \subseteq Server /\ DOMAIN fewer \subseteq Server
  BY <1>2, <1>3 DEF BrokerInv, IsBroker
<1>5. IsBroker(Grant(role, n)) /\ Grant(role, n).asked = broker.asked
  BY <1>1, <1>4, RolesReplaced
<1>6. IsBroker(Revoke(role, n)) /\ Revoke(role, n).asked = broker.asked
  <2>1. /\ IsBroker([broker EXCEPT !.roles = fewer])
        /\ [broker EXCEPT !.roles = fewer].asked = broker.asked
    BY <1>4, RolesReplaced
  <2> QED  BY <1>3, <1>4, <2>1
<1> QED  BY <1>5, <1>6

LEMMA BrokerStep == BrokerInv /\ [BrokerNext]_broker => BrokerInv'
<1> SUFFICES ASSUME BrokerInv, [BrokerNext]_broker  PROVE BrokerInv'
  OBVIOUS
<1>0. IsBroker(broker)
  BY DEF BrokerInv
<1>1. CASE UNCHANGED broker
  BY <1>1 DEF BrokerInv, IsBroker, IsRegistry, IsLock
<1>2. CASE \E a : Respond(broker, a)
  BY <1>0, <1>2, RespondKeeps
<1>3. CASE \/ handleBrokerDiscoverCatalog \/ handleBrokerListTransports
           \/ handleBrokerBuildCatalog \/ handleBrokerMatchIntent \/ handleBrokerCall
  <2>1. \E a : Respond(broker, a)
    BY <1>3, Zenon
    DEF handleBrokerDiscoverCatalog, handleBrokerListTransports, handleBrokerBuildCatalog,
        handleBrokerMatchIntent, handleBrokerCall, MatchIntent, Call, Refuse
  <2> QED  BY <1>2, <2>1
<1>4. CASE handleBrokerRegisterMCPServer
  <2>1. CASE Refuse("register")
    BY <1>2, <2>1 DEF Refuse
  <2>2. ASSUME NEW n \in Server, NEW type \in Transport, NEW a,
               Respond(RegisterMCPServer(broker, n, <<type>>), a)
        PROVE  BrokerInv'
    <3>1. RegisterMCPServer(broker, n, <<type>>) = Register(broker, n, type)
      BY DEF RegisterMCPServer
    <3> QED  BY <1>0, <2>2, <3>1, RegisterKeeps, RespondKeeps
  <2> QED  BY <1>4, <2>1, <2>2 DEF handleBrokerRegisterMCPServer
<1>5. CASE handleBrokerActivateMCPServer
  <2>1. CASE Refuse("activate")
    BY <1>2, <2>1 DEF Refuse
  <2>2. ASSUME NEW n \in DOMAIN broker.entries, NEW type \in Transport,
               Activation(broker, n, <<type>>)
        PROVE  BrokerInv'
    <3>1. \A i \in DOMAIN <<type>> : <<type>>[i] \in Transport
      OBVIOUS
    <3> QED  BY <1>0, <2>2, <3>1, ActivationKeeps
  <2> QED  BY <1>5, <2>1, <2>2 DEF handleBrokerActivateMCPServer
<1>6. CASE handleBrokerActivateFromCatalog
  <2>1. PICK role \in BrokerRole, n \in Server : ActivateFromCatalog(role, n)
    BY <1>6 DEF handleBrokerActivateFromCatalog
  <2>2. CASE Refuse("activate")
    BY <1>2, <2>2 DEF Refuse
  <2>3. CASE n \in DOMAIN Menu /\ Activation(RegisterMCPServer(broker, n, Menu[n]), n, Menu[n])
    <3>1. Menu[n] \in Seq(Transport) /\ Menu[n] # <<>>
      BY <2>3, BrokerAssumption
    <3>2. /\ \A i \in DOMAIN Menu[n] : Menu[n][i] \in Transport
          /\ Menu[n][1] \in Transport
      BY <3>1
    <3> DEFINE b == Register(broker, n, Menu[n][1])
    <3>3. /\ Activation(b, n, Menu[n])
          /\ IsBroker(b) /\ b.asked = broker.asked /\ n \in DOMAIN b.entries
      BY <1>0, <2>3, <3>2, RegisterKeeps DEF RegisterMCPServer
    <3> HIDE DEF b
    <3> QED  BY <3>2, <3>3, ActivationKeeps
  <2> QED  BY <2>1, <2>2, <2>3 DEF ActivateFromCatalog
<1>7. CASE handleBrokerDeactivateMCPServer
  BY <1>7, DeactivationKeeps DEF handleBrokerDeactivateMCPServer
<1>8. CASE handleBrokerExportProfile
  BY <1>8, ExportKeeps, RespondKeeps DEF handleBrokerExportProfile
<1>9. CASE handleBrokerImportProfile
  <2>1. (\E a : Respond(broker, a)) \/ (\E a : Respond(ImportProfile, a))
    BY <1>9, Zenon DEF handleBrokerImportProfile, Refuse
  <2> QED  BY <1>2, <2>1, ImportKeeps, RespondKeeps
<1>10. CASE ServerExits
  <2>1. PICK n \in DOMAIN broker.entries : broker' = [broker EXCEPT !.entries[n].up = FALSE]
    BY <1>10 DEF ServerExits
  <2> QED  BY <1>0, <2>1, DownKeeps DEF BrokerInv
<1>11. CASE BrokerRestarts
  <2>1. broker' = [broker EXCEPT !.entries = <<>>, !.clients = {}, !.roles = ServerRoles,
                                 !.answer = [op |-> "none"]]
    BY <1>11 DEF BrokerRestarts
  <2>2. /\ broker'.entries = <<>> /\ broker'.clients = {} /\ broker'.roles = ServerRoles
        /\ broker'.archive = broker.archive /\ broker'.asked = broker.asked
        /\ broker' = [entries |-> broker'.entries, clients |-> broker'.clients,
                      roles |-> broker'.roles, archive |-> broker'.archive,
                      asked |-> broker'.asked, answer |-> broker'.answer]
    BY <1>0, <2>1 DEF IsBroker, BrokerFields
  <2>3. IsRegistry(<<>>)
    BY DEF IsRegistry
  <2> QED  BY <2>2, <2>3, BrokerAssumption DEF BrokerInv, IsBroker, BrokerFields
<1>12. CASE AccessChanges
  BY <1>12, AccessKeeps, RespondKeeps DEF AccessChanges
<1> QED  BY <1>1, <1>3, <1>4, <1>5, <1>6, <1>7, <1>8, <1>9, <1>10, <1>11, <1>12
         DEF BrokerNext

\* Whatever is registered, activated, imported and forgotten, a process is of a server
\* with a command and an HTTP client of one that is registered.
THEOREM BrokerTypeCorrect == BrokerSpec => []BrokerTypeOK
<1>1. BrokerInit => BrokerInv
  <2>1. IsRegistry(<<>>) /\ DOMAIN <<>> = {}
    BY DEF IsRegistry
  <2>2. IsLock(NoArchive.lock)
    BY DEF NoArchive, IsLock
  <2> SUFFICES ASSUME BrokerInit  PROVE BrokerInv
    OBVIOUS
  <2>3. /\ broker.entries = <<>> /\ broker.clients = {} /\ broker.roles = ServerRoles
        /\ broker.archive = NoArchive /\ broker.asked = 0
        /\ broker = [entries |-> broker.entries, clients |-> broker.clients,
                     roles |-> broker.roles, archive |-> broker.archive,
                     asked |-> broker.asked, answer |-> broker.answer]
    BY DEF BrokerInit
  <2>4. DOMAIN ServerRoles \subseteq Server
    BY BrokerAssumption
  <2>5. IsBroker(broker)
    BY <2>1, <2>2, <2>3, <2>4 DEF IsBroker, BrokerFields
  <2> QED  BY <2>3, <2>5, BrokerBound DEF BrokerInv
<1>2. BrokerInv => BrokerTypeOK
  BY DEF BrokerInv, IsBroker, IsRegistry, IsLock, ServerEntry, BrokerTypeOK
<1> QED  BY <1>1, <1>2, BrokerStep, PTL DEF BrokerSpec

(***************************************************************************)
(*                                  Peers                                  *)
(*                                                                         *)
(* The types of the tables of peers.  That the list has no peer twice and  *)
(* that a memory is shared with a peer once are facts about many rows: a   *)
(* handler that adds a row adds none where there is one, and the rows it   *)
(* is not about are as they were.  What is about a peer is about one of    *)
(* the list, whose order is the newest first, so that a page of it is too. *)
(***************************************************************************)

PeersFields(q) ==
    q = [listed |-> q.listed, shares |-> q.shares, profiles |-> q.profiles, tools |-> q.tools,
         audit |-> q.audit, active |-> q.active, asked |-> q.asked, answer |-> q.answer]

\* The rows of memory_sharing: one for each memory and peer, and of a peer that is there.
SharesOf(there, shares) ==
    /\ shares \subseteq [memory : Shared, peer : there, permission : Permissions]
    /\ \A r, s \in shares : r.memory = s.memory /\ r.peer = s.peer => r = s

\* The table peers has no id twice, and what is about a peer is about one that it has;
\* agent_tools is not bound to it.
IsPeers(q) ==
    /\ PeersFields(q)
    /\ q.listed \in Seq(Peer) /\ IsInjective(q.listed)
    /\ SharesOf(Range(q.listed), q.shares)
    /\ DOMAIN q.profiles \subseteq Range(q.listed)
    /\ DOMAIN q.tools \subseteq Peer \X Tool
    /\ q.active \in Range(q.listed) \cup {DefaultPeer}

PeersInv == IsPeers(peers) /\ peers.asked \in 0..MaxPeerRequests

LEMMA PeersBound ==
  /\ MaxPeerRequests \in Nat /\ 0 \in 0..MaxPeerRequests
  /\ \A n \in 0..MaxPeerRequests : n < MaxPeerRequests => n + 1 \in 0..MaxPeerRequests
<1>1. MaxPeerRequests \in Nat
  BY PeerAssumption
<1> QED  BY <1>1

LEMMA PeersAnswerKeeps ==
  ASSUME PeersInv, NEW after, IsPeers(after), after.asked = peers.asked, NEW a, Answer(after, a)
  PROVE  PeersInv'
<1>1. peers' = [after EXCEPT !.asked = @ + 1, !.answer = a] /\ peers.asked < MaxPeerRequests
  BY DEF Answer
<1>2. peers' = [listed |-> after.listed, shares |-> after.shares, profiles |-> after.profiles,
                tools |-> after.tools, audit |-> after.audit, active |-> after.active,
                asked |-> after.asked + 1, answer |-> a]
  BY <1>1 DEF IsPeers, PeersFields
<1>3. /\ PeersFields(peers)' /\ peers'.listed = after.listed /\ peers'.shares = after.shares
      /\ peers'.profiles = after.profiles /\ peers'.tools = after.tools
      /\ peers'.active = after.active /\ peers'.asked = peers.asked + 1
  BY <1>2 DEF PeersFields
<1>4. IsPeers(peers)'
  BY <1>3 DEF IsPeers
<1>5. peers'.asked \in 0..MaxPeerRequests
  BY <1>1, <1>3, PeersBound DEF PeersInv
<1> QED  BY <1>4, <1>5 DEF PeersInv

-----------------------------------------------------------------------------
(* The statements.                                                         *)

LEMMA ListGrows ==
  ASSUME NEW list \in Seq(Peer), IsInjective(list), NEW p \in Peer, p \notin Range(list)
  PROVE  /\ <<p>> \o list \in Seq(Peer)
         /\ IsInjective(<<p>> \o list)
         /\ Range(<<p>> \o list) = Range(list) \cup {p}
<1> DEFINE new == <<p>> \o list
           n == Len(list)
<1>1. /\ n \in Nat /\ DOMAIN list = 1..n
      /\ new \in Seq(Peer) /\ DOMAIN new = 1..(n + 1)
      /\ \A i \in 1..(n + 1) : new[i] = IF i = 1 THEN p ELSE list[i - 1]
  OBVIOUS
<1> HIDE DEF new, n
<1>2. \A i \in 1..n : i + 1 \in 1..(n + 1) /\ new[i + 1] = list[i]
  <2> TAKE i \in 1..n
  <2>1. i \in Nat /\ i + 1 \in 1..(n + 1) /\ i + 1 # 1 /\ (i + 1) - 1 = i
    BY <1>1
  <2> QED  BY <1>1, <2>1
<1>3. \A i \in 1..(n + 1) : i # 1 => i - 1 \in 1..n
  BY <1>1
<1>4. Range(new) \subseteq Range(list) \cup {p}
  BY <1>1, <1>3 DEF Range
<1>5. Range(list) \cup {p} \subseteq Range(new)
  <2>1. 1 \in 1..(n + 1)
    BY <1>1
  <2> QED  BY <1>1, <1>2, <2>1 DEF Range
<1>6. ASSUME NEW i \in 1..(n + 1), NEW j \in 1..(n + 1), new[i] = new[j]
      PROVE  i = j
  <2>1. \A k \in 1..(n + 1) : k # 1 => new[k] = list[k - 1] /\ list[k - 1] # p
    BY <1>1, <1>3 DEF Range
  <2>2. CASE i = 1 \/ j = 1
    BY <1>1, <1>6, <2>1, <2>2
  <2>3. CASE i # 1 /\ j # 1
    <3>1. list[i - 1] = list[j - 1] /\ i - 1 \in 1..n /\ j - 1 \in 1..n
      BY <1>3, <1>6, <2>1, <2>3
    <3>2. i - 1 = j - 1
      BY <1>1, <3>1 DEF IsInjective
    <3> QED  BY <1>1, <3>2
  <2> QED  BY <2>2, <2>3
<1>7. IsInjective(new)
  BY <1>1, <1>6 DEF IsInjective
<1> QED  BY <1>1, <1>4, <1>5, <1>7 DEF new

LEMMA PeerAdded ==
  ASSUME PeersInv, NEW p \in Peer, NEW role, NEW inRange, AddPeer(p, role, inRange)
  PROVE  PeersInv'
<1> DEFINE list == <<p>> \o peers.listed
<1>1. CASE Error
  BY <1>1, PeersAnswerKeeps DEF Error, PeersInv
<1>2. CASE ~Error
  <2>1. PICK after : /\ after = [peers EXCEPT !.listed = list]
                     /\ Answer(after, p) /\ ~IsPeer(p)
    BY <1>2 DEF AddPeer
  <2>2. /\ list \in Seq(Peer) /\ IsInjective(list)
        /\ Range(list) = Range(peers.listed) \cup {p}
    BY <2>1, ListGrows DEF PeersInv, IsPeers, IsPeer
  <2> HIDE DEF list
  <2>3. /\ PeersFields(after) /\ after.listed = list /\ after.shares = peers.shares
        /\ after.profiles = peers.profiles /\ after.tools = peers.tools
        /\ after.active = peers.active /\ after.asked = peers.asked
    BY <2>1 DEF PeersInv, IsPeers, PeersFields
  <2>4. SharesOf(Range(list), after.shares)
    BY <2>2, <2>3 DEF PeersInv, IsPeers, SharesOf
  <2>5. IsPeers(after)
    BY <2>2, <2>3, <2>4 DEF PeersInv, IsPeers
  <2> QED  BY <2>1, <2>3, <2>5, PeersAnswerKeeps
<1> QED  BY <1>1, <1>2

LEMMA MemoryShared ==
  ASSUME PeersInv, NEW m \in Shared, NEW p \in Peer, NEW permission, ShareMemory(m, p, permission)
  PROVE  PeersInv'
<1> DEFINE row == [memory |-> m, peer |-> p, permission |-> permission]
           shares == peers.shares \cup {row}
<1>1. CASE Error
  BY <1>1, PeersAnswerKeeps DEF Error, PeersInv
<1>2. CASE ~Error
  <2>1. PICK after : /\ after = [peers EXCEPT !.shares = shares]
                     /\ Answer(after, "shared")
                     /\ permission \in Permissions /\ IsPeer(p)
                     /\ ~ \E s \in peers.shares : s.memory = m /\ s.peer = p
    BY <1>2 DEF ShareMemory
  <2>2. /\ PeersFields(after) /\ after.listed = peers.listed /\ after.shares = shares
        /\ after.profiles = peers.profiles /\ after.tools = peers.tools
        /\ after.active = peers.active /\ after.asked = peers.asked
    <3> HIDE DEF shares
    <3> QED  BY <2>1 DEF PeersInv, IsPeers, PeersFields
  <2>3. row \in [memory : Shared, peer : Range(peers.listed), permission : Permissions]
        /\ row.memory = m /\ row.peer = p
    BY <2>1 DEF IsPeer
  <2> HIDE DEF row
  <2>4. SharesOf(Range(peers.listed), shares)
    BY <2>1, <2>3 DEF PeersInv, IsPeers, SharesOf
  <2>5. IsPeers(after)
    BY <2>2, <2>4 DEF PeersInv, IsPeers
  <2> QED  BY <2>1, <2>2, <2>5, PeersAnswerKeeps
<1> QED  BY <1>1, <1>2

LEMMA ProfileStored ==
  ASSUME PeersInv, NEW p, NEW profile, UpsertUserProfile(p, profile)
  PROVE  PeersInv'
<1> DEFINE profiles == Put(peers.profiles, p, profile)
<1>1. CASE Error
  BY <1>1, PeersAnswerKeeps DEF Error, PeersInv
<1>2. CASE ~Error
  <2>1. PICK after : /\ after = [peers EXCEPT !.profiles = profiles]
                     /\ Answer(after, profile) /\ IsPeer(p)
    BY <1>2 DEF UpsertUserProfile
  <2>2. DOMAIN profiles = DOMAIN peers.profiles \cup {p}
    BY DEF Put
  <2> HIDE DEF profiles
  <2>3. /\ PeersFields(after) /\ after.listed = peers.listed /\ after.shares = peers.shares
        /\ after.profiles = profiles /\ after.tools = peers.tools
        /\ after.active = peers.active /\ after.asked = peers.asked
    BY <2>1 DEF PeersInv, IsPeers, PeersFields
  <2>4. IsPeers(after)
    BY <2>1, <2>2, <2>3 DEF PeersInv, IsPeers, IsPeer
  <2> QED  BY <2>1, <2>3, <2>4, PeersAnswerKeeps
<1> QED  BY <1>1, <1>2

\* The tools a peer asks for are counted whether or not there is such a peer.
LEMMA ToolsCounted ==
  ASSUME PeersInv, NEW p \in Peer, NEW t \in Tool, NEW a, NEW after,
         after \in {RecordToolRequest(p, t), IncrementToolUse(p, t)}, Answer(after, a)
  PROVE  PeersInv'
<1>1. PICK tools : /\ after = peers \/ after = [peers EXCEPT !.tools = tools]
                   /\ DOMAIN tools \subseteq DOMAIN peers.tools \cup {<<p, t>>}
  <2>1. CASE after = RecordToolRequest(p, t)
    <3> DEFINE tools == Put(peers.tools, <<p, t>>, 0)
    <3>1. DOMAIN tools = DOMAIN peers.tools \cup {<<p, t>>}
      BY DEF Put
    <3>2. after = peers \/ after = [peers EXCEPT !.tools = tools]
      BY <2>1 DEF RecordToolRequest
    <3> QED  BY <3>1, <3>2
  <2>2. CASE after = IncrementToolUse(p, t)
    <3> DEFINE tools == [peers.tools EXCEPT ![<<p, t>>] = @ + 1]
    <3>1. DOMAIN tools = DOMAIN peers.tools
      OBVIOUS
    <3>2. after = [peers EXCEPT !.tools = tools]
      BY <2>2 DEF IncrementToolUse
    <3> QED  BY <3>1, <3>2
  <2> QED  BY <2>1, <2>2
<1>2. CASE after = peers
  BY <1>2, PeersAnswerKeeps DEF PeersInv
<1>3. CASE after = [peers EXCEPT !.tools = tools]
  <2>1. /\ PeersFields(after) /\ after.listed = peers.listed /\ after.shares = peers.shares
        /\ after.profiles = peers.profiles /\ after.tools = tools
        /\ after.active = peers.active /\ after.asked = peers.asked
    BY <1>3 DEF PeersInv, IsPeers, PeersFields
  <2>2. IsPeers(after)
    BY <1>1, <2>1 DEF PeersInv, IsPeers
  <2> QED  BY <2>1, <2>2, PeersAnswerKeeps
<1> QED  BY <1>1, <1>2, <1>3

LEMMA EventLogged ==
  ASSUME PeersInv, NEW known, NEW severity, NEW memory, LogEvent(known, severity, memory)
  PROVE  PeersInv'
<1>1. CASE Error
  BY <1>1, PeersAnswerKeeps DEF Error, PeersInv
<1>2. CASE ~Error
  <2>1. PICK after, audit : after = [peers EXCEPT !.audit = audit] /\ Answer(after, "logged")
    BY <1>2, Zenon DEF LogEvent, LogAuditEvent
  <2>2. /\ PeersFields(after) /\ after.listed = peers.listed /\ after.shares = peers.shares
        /\ after.profiles = peers.profiles /\ after.tools = peers.tools
        /\ after.active = peers.active /\ after.asked = peers.asked
    BY <2>1 DEF PeersInv, IsPeers, PeersFields
  <2>3. IsPeers(after)
    BY <2>2 DEF PeersInv, IsPeers
  <2> QED  BY <2>1, <2>2, <2>3, PeersAnswerKeeps
<1> QED  BY <1>1, <1>2

\* The page of a list has no peer that the list has not.
LEMMA PageIsListed ==
  ASSUME NEW limit \in Nat, peers.listed \in Seq(Peer)
  PROVE  Range(ListPeers(limit)) \subseteq Range(peers.listed)
<1> DEFINE n == IF limit < Len(peers.listed) THEN limit ELSE Len(peers.listed)
<1>1. n \in 0..Len(peers.listed) /\ DOMAIN peers.listed = 1..Len(peers.listed)
      /\ Len(peers.listed) \in Nat
  OBVIOUS
<1>2. ListPeers(limit) = SubSeq(peers.listed, 1, n)
  BY DEF ListPeers
<1> HIDE DEF n
<1>3. /\ DOMAIN SubSeq(peers.listed, 1, n) = 1..n
      /\ \A i \in 1..n : SubSeq(peers.listed, 1, n)[i] = peers.listed[i]
  BY <1>1
<1> QED  BY <1>1, <1>2, <1>3 DEF Range

LEMMA ContextSwitched ==
  ASSUME PeersInv, handlePeerSwitchContext
  PROVE  PeersInv'
<1>1. CASE Error
  BY <1>1, PeersAnswerKeeps DEF Error, PeersInv
<1>2. CASE ~Error
  <2>1. PICK p, after, a : /\ p \in Range(ListPeers(1000))
                           /\ after = [peers EXCEPT !.active = p] /\ Answer(after, a)
    BY <1>2, Zenon DEF handlePeerSwitchContext, SwitchPeer
  <2>2. p \in Range(peers.listed)
    <3>1. 1000 \in Nat /\ peers.listed \in Seq(Peer)
      BY DEF PeersInv, IsPeers
    <3> QED  BY <2>1, <3>1, PageIsListed
  <2>3. /\ PeersFields(after) /\ after.listed = peers.listed /\ after.shares = peers.shares
        /\ after.profiles = peers.profiles /\ after.tools = peers.tools
        /\ after.active = p /\ after.asked = peers.asked
    BY <2>1 DEF PeersInv, IsPeers, PeersFields
  <2>4. IsPeers(after)
    BY <2>2, <2>3 DEF PeersInv, IsPeers
  <2> QED  BY <2>1, <2>3, <2>4, PeersAnswerKeeps
<1> QED  BY <1>1, <1>2

LEMMA PeersStep == PeersInv /\ [PeersNext]_peers => PeersInv'
<1> SUFFICES ASSUME PeersInv, [PeersNext]_peers  PROVE PeersInv'
  OBVIOUS
<1>1. CASE UNCHANGED peers
  BY <1>1 DEF PeersInv, IsPeers, PeersFields, SharesOf
<1>2. CASE \E a : Answer(peers, a)
  BY <1>2, PeersAnswerKeeps DEF PeersInv
<1>3. CASE \/ handlePeerListPeers \/ handlePeerGetPeerMemories \/ handlePeerGetSharedMemories
           \/ handleUserGetProfile \/ handleAgentGetTools \/ handleAgentGetInitialToolSet
           \/ handleMemoryGetAuditEvents \/ handleAuditGetSecuritySummary
  <2>1. \E a : Answer(peers, a)
    BY <1>3, Zenon
    DEF handlePeerListPeers, handlePeerGetPeerMemories, handlePeerGetSharedMemories,
        handleUserGetProfile, handleAgentGetTools, handleAgentGetInitialToolSet,
        handleMemoryGetAuditEvents, handleAuditGetSecuritySummary, GetPeerMemories,
        GetSharedMemories, GetAuditEvents, Error
  <2> QED  BY <1>2, <2>1
<1>4. CASE handlePeerAddPeer
  BY <1>2, <1>4, PeerAdded DEF handlePeerAddPeer, Error
<1>5. CASE handlePeerShareMemory
  BY <1>2, <1>5, MemoryShared DEF handlePeerShareMemory, Error
<1>6. CASE handleUserUpdateProfile
  BY <1>6, ProfileStored, Zenon DEF handleUserUpdateProfile, UpdateProfile
<1>7. CASE handleAgentRecordToolRequest
  BY <1>7, ToolsCounted DEF handleAgentRecordToolRequest
<1>8. CASE handleAgentIncrementToolUse
  <2>1. \/ Error
        \/ \E p \in Peer, t \in Tool : \E a : Answer(IncrementToolUse(p, t), a)
    BY <1>8, Zenon DEF handleAgentIncrementToolUse
  <2> QED  BY <1>2, <2>1, ToolsCounted DEF Error
<1>9. CASE handleMemoryLogAuditEvent
  BY <1>9, EventLogged DEF handleMemoryLogAuditEvent
<1>10. CASE handlePeerSwitchContext
  BY <1>10, ContextSwitched
<1>11. CASE PeersRestart
  <2>1. peers' = [peers EXCEPT !.active = DefaultPeer, !.answer = "none"]
    BY <1>11 DEF PeersRestart
  <2>2. peers' = [listed |-> peers.listed, shares |-> peers.shares, profiles |-> peers.profiles,
                  tools |-> peers.tools, audit |-> peers.audit, active |-> DefaultPeer,
                  asked |-> peers.asked, answer |-> "none"]
    BY <2>1 DEF PeersInv, IsPeers, PeersFields
  <2>3. /\ PeersFields(peers)' /\ peers'.listed = peers.listed /\ peers'.shares = peers.shares
        /\ peers'.profiles = peers.profiles /\ peers'.tools = peers.tools
        /\ peers'.active = DefaultPeer /\ peers'.asked = peers.asked
    BY <2>2 DEF PeersFields
  <2> QED  BY <2>3 DEF PeersInv, IsPeers
<1> QED  BY <1>1, <1>3, <1>4, <1>5, <1>6, <1>7, <1>8, <1>9, <1>10, <1>11 DEF PeersNext

\* No peer is listed twice, and shares, profiles and the active peer are of peers that are
\* listed, for any peers, memories and tools, whatever the requests (main.go, migrations
\* 000001 and 000004).
THEOREM PeersTypeCorrect == PeersSpec => []PeersTypeOK
<1>1. PeersInit => PeersInv
  <2> SUFFICES ASSUME PeersInit  PROVE PeersInv
    OBVIOUS
  <2>1. PICK used \in {<<>>} \cup [Peer \X Tool -> {BypassAfter - 2}] :
           peers = [listed |-> <<>>, shares |-> {}, profiles |-> <<>>, tools |-> used,
                    audit |-> <<>>, active |-> DefaultPeer, asked |-> 0, answer |-> "none"]
    BY DEF PeersInit
  <2>2. DOMAIN used \subseteq Peer \X Tool
    OBVIOUS
  <2>3. /\ PeersFields(peers) /\ peers.listed = <<>> /\ peers.shares = {}
        /\ peers.profiles = <<>> /\ peers.tools = used
        /\ peers.active = DefaultPeer /\ peers.asked = 0
    BY <2>1 DEF PeersFields
  <2>4. <<>> \in Seq(Peer) /\ IsInjective(<<>>) /\ DOMAIN <<>> = {}
    BY DEF IsInjective
  <2>5. IsPeers(peers)
    BY <2>2, <2>3, <2>4 DEF IsPeers, SharesOf
  <2> QED  BY <2>3, <2>5, PeersBound DEF PeersInv
<1>2. PeersInv => PeersTypeOK
  <2> SUFFICES ASSUME PeersInv  PROVE PeersTypeOK
    OBVIOUS
  <2>1. Range(peers.listed) \subseteq Peer
    <3>1. peers.listed \in Seq(Peer)
      BY DEF PeersInv, IsPeers
    <3> QED  BY <3>1 DEF Range
  <2> QED  BY <2>1 DEF PeersInv, IsPeers, SharesOf, PeersTypeOK
<1> QED  BY <1>1, <1>2, PeersStep, PTL DEF PeersSpec
=============================================================================
