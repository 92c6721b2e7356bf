--------------------------- MODULE TaskRunnerProofs ---------------------------
(***************************************************************************)
(* Proofs about TaskRunner for every set of tasks, every plan and every    *)
(* number of workers.  A task of the group in progress is in one place:    *)
(* unsent, in jobs, held by one worker, or answered; the tasks of the      *)
(* groups before it have all their results in allResults.                  *)
(***************************************************************************)
EXTENDS TaskRunner, FiniteSetTheorems, TLAPS

\* What is settled at each stage of Dispatch.
Stages ==
    /\ pc = "start" => level = 0
    /\ pc \notin {"start", "refused"} => IsDepth(deps, depth)
    /\ pc \notin {"send", "collect"} =>
        /\ unsent = {} /\ jobs = {} /\ results = {}
        /\ \A w \in Workers : worker[w] \in {"none", "done"}
    /\ pc \notin {"send", "collect", "gathered"} => collected = {}
    /\ IF pc = "alone" THEN alone \in Tasks /\ Group(level) = {alone} ELSE alone = None
    /\ pc = "send" => open /\ worker[1] # "done"
    /\ pc = "collect" => ~open /\ unsent = {} /\ (worker[1] = "done" => jobs = {})
    /\ pc = "finished" => \A t \in Tasks : depth[t] < level

\* Each task of the group in progress is in one place ...
Placed ==
    /\ unsent \cap jobs = {}
    /\ unsent \cup jobs \subseteq Group(level) \ Ended
    /\ \A w \in Workers : worker[w] = "running" =>
        holding[w] \in Group(level) \ (unsent \cup jobs \cup Ended)
    /\ \A v, w \in Workers :
        worker[v] = "running" /\ worker[w] = "running" /\ holding[v] = holding[w] => v = w

\* ... and in one of them until the group is over.
Covered ==
    pc \in {"send", "collect", "gathered"} =>
        \A t \in Group(level) :
            \/ t \in unsent \cup jobs \cup Ended
            \/ \E w \in Workers : worker[w] = "running" /\ holding[w] = t

\* The results are those of the groups so far, one for each task.
Recorded ==
    /\ Named(results) \cup Named(collected) \subseteq Group(level)
    /\ Named(all) = {t \in Tasks : depth[t] < level}
    /\ \A p, q \in all \cup collected \cup results : p[1] = q[1] => p = q

IInv == TypeOK /\ Stages /\ Placed /\ Covered /\ Recorded

-----------------------------------------------------------------------------
(* The names in sets of results.                                           *)

\* A result more is a name more.
LEMMA NamedAdd ==
    ASSUME NEW S, NEW t, NEW o
    PROVE  Named(S \cup {<<t, o>>}) = Named(S) \cup {t}
<1>1. \A p \in {<<t, o>>} : p[1] = t
  OBVIOUS
<1>2. QED
  BY <1>1 DEF Named

-----------------------------------------------------------------------------
(* The invariant holds.                                                    *)

THEOREM Inductive == Spec => []IInv
<1>1. Init => IInv
  <2> SUFFICES ASSUME Init PROVE IInv
    OBVIOUS
  <2>1. TypeOK
    BY RunnerAssumption DEF Init, TypeOK, Workers
  <2>2. Stages /\ Placed /\ Covered
    BY <2>1 DEF Init, Stages, Placed, Covered
  <2>3. Recorded
    BY <2>1 DEF Init, Recorded, Named
  <2>4. QED
    BY <2>1, <2>2, <2>3 DEF IInv
<1>2. IInv /\ [Next]_vars => IInv'
  <2> SUFFICES ASSUME IInv, [Next]_vars PROVE IInv'
    OBVIOUS
  <2> USE DEF IInv, chanVars, poolVars
  <2>1. CASE GetGroups
    <3>1. TypeOK'
      <4>1. depth' \in [Tasks -> Nat]
        <5>1. Cardinality(Tasks) \in Nat
          BY PlanAssumption, FS_CardinalityType
        <5>2. 0..Cardinality(Tasks) \subseteq Nat
          BY <5>1
        <5>3. QED
          BY <2>1, <5>2 DEF GetGroups, Depths, TypeOK
      <4>2. QED
        BY <2>1, <4>1 DEF TypeOK, GetGroups
    <3>2. Stages'
      BY <2>1 DEF Stages, GetGroups
    <3>3. Placed'
      BY <2>1 DEF Stages, Placed, GetGroups
    <3>4. Covered'
      BY <2>1 DEF Covered, GetGroups
    <3>5. Recorded'
      BY <2>1, <3>1 DEF Stages, Recorded, TypeOK, Named, GetGroups
    <3>6. QED
      BY <3>1, <3>2, <3>3, <3>4, <3>5
  <2>2. CASE SkipLevel
    <3>1. TypeOK'
      BY <2>2 DEF TypeOK, SkipLevel
    <3>2. Stages'
      BY <2>2 DEF Stages, SkipLevel
    <3>3. Placed'
      BY <2>2 DEF Placed, SkipLevel
    <3>4. Covered'
      BY <2>2 DEF Covered, SkipLevel
    <3>5. Recorded'
      BY <2>2 DEF Recorded, TypeOK, Group, SkipLevel
    <3>6. QED
      BY <3>1, <3>2, <3>3, <3>4, <3>5
  <2>3. CASE RunAlone
    <3>1. TypeOK'
      BY <2>3 DEF TypeOK, RunAlone
    <3>2. Stages'
      BY <2>3 DEF Stages, Group, RunAlone
    <3>3. Placed'
      BY <2>3 DEF Stages, Placed, RunAlone
    <3>4. Covered'
      BY <2>3 DEF Covered, RunAlone
    <3>5. Recorded'
      BY <2>3 DEF Stages, Recorded, Named, RunAlone
    <3>6. QED
      BY <3>1, <3>2, <3>3, <3>4, <3>5
  <2>4. CASE AloneEnds
    <3>1. TypeOK'
      BY <2>4 DEF TypeOK, Stages, Pairs, AloneEnds
    <3>2. Stages'
      BY <2>4 DEF Stages, AloneEnds
    <3>3. Placed'
      BY <2>4 DEF Stages, Placed, AloneEnds
    <3>4. Covered'
      BY <2>4 DEF Stages, Covered, Group, Ended, Named, AloneEnds
    <3>5. Recorded'
      BY <2>4 DEF Stages, Recorded, TypeOK, Group, Named, AloneEnds
    <3>6. QED
      BY <3>1, <3>2, <3>3, <3>4, <3>5
  <2>5. CASE StartPool
    <3>1. TypeOK'
      BY <2>5 DEF TypeOK, Group, StartPool
    <3>2. Stages'
      <4>1. 1 \in Workers
        BY RunnerAssumption DEF Workers
      <4>2. IsFiniteSet(Group(level))
        BY PlanAssumption, FS_Subset DEF Group
      <4>3. 1 <= Cardinality(Group(level))
        BY <2>5, <4>2, FS_CardinalityType DEF StartPool
      <4>4. worker'[1] = "ranging"
        BY <2>5, <4>1, <4>3 DEF StartPool
      <4>5. QED
        BY <2>5, <4>4 DEF Stages, StartPool
    <3>3. Placed'
      BY <2>5 DEF Stages, Placed, Recorded, TypeOK, Group, Ended, Named, StartPool
    <3>4. Covered'
      BY <2>5 DEF Covered, Group, StartPool
    <3>5. Recorded'
      BY <2>5 DEF Stages, Recorded, Named, StartPool
    <3>6. QED
      BY <3>1, <3>2, <3>3, <3>4, <3>5
  <2>6. CASE SendJob
    <3>1. TypeOK'
      BY <2>6 DEF TypeOK, SendJob
    <3>2. Stages'
      BY <2>6 DEF Stages, SendJob
    <3>3. Placed'
      BY <2>6 DEF Placed, Group, Ended, SendJob
    <3>4. Covered'
      BY <2>6 DEF Covered, Group, Ended, SendJob
    <3>5. Recorded'
      BY <2>6 DEF Recorded, Group, SendJob
    <3>6. QED
      BY <3>1, <3>2, <3>3, <3>4, <3>5
  <2>7. CASE CloseJobs
    <3>1. TypeOK'
      BY <2>7 DEF TypeOK, CloseJobs
    <3>2. Stages'
      BY <2>7 DEF Stages, CloseJobs
    <3>3. Placed'
      BY <2>7 DEF Placed, Group, Ended, CloseJobs
    <3>4. Covered'
      BY <2>7 DEF Covered, Group, Ended, CloseJobs
    <3>5. Recorded'
      BY <2>7 DEF Recorded, Group, CloseJobs
    <3>6. QED
      BY <3>1, <3>2, <3>3, <3>4, <3>5
  <2>8. CASE Collect
    <3>1. TypeOK'
      BY <2>8 DEF TypeOK, Collect
    <3>2. Stages'
      BY <2>8 DEF Stages, Collect
    <3>3. Placed'
      BY <2>8 DEF Placed, Group, Ended, Named, Collect
    <3>4. Covered'
      BY <2>8 DEF Covered, Group, Ended, Named, Collect
    <3>5. Recorded'
      BY <2>8 DEF Recorded, Group, Named, Collect
    <3>6. QED
      BY <3>1, <3>2, <3>3, <3>4, <3>5
  <2>9. CASE Collected
    <3>1. TypeOK'
      BY <2>9 DEF TypeOK, Collected
    <3>2. Stages'
      <4>1. 1 \in Workers
        BY RunnerAssumption DEF Workers
      <4>2. QED
        BY <2>9, <4>1 DEF Stages, Collected
    <3>3. Placed'
      BY <2>9 DEF Placed, Group, Ended, Collected
    <3>4. Covered'
      BY <2>9 DEF Covered, Group, Ended, Collected
    <3>5. Recorded'
      BY <2>9 DEF Recorded, Group, Collected
    <3>6. QED
      BY <3>1, <3>2, <3>3, <3>4, <3>5
  <2>10. CASE NextGroup
    <3>1. TypeOK'
      BY <2>10 DEF TypeOK, NextGroup
    <3>2. Stages'
      BY <2>10 DEF Stages, NextGroup
    <3>3. Placed'
      BY <2>10 DEF Stages, Placed, NextGroup
    <3>4. Covered'
      BY <2>10 DEF Covered, NextGroup
    <3>5. Recorded'
      BY <2>10 DEF Stages, Covered, Recorded, TypeOK, Group, Ended, Named, NextGroup
    <3>6. QED
      BY <3>1, <3>2, <3>3, <3>4, <3>5
  <2>11. CASE Finish
    <3>1. TypeOK'
      BY <2>11 DEF TypeOK, Finish
    <3>2. Stages'
      BY <2>11 DEF Stages, Finish
    <3>3. Placed'
      BY <2>11 DEF Stages, Placed, Finish
    <3>4. Covered'
      BY <2>11 DEF Covered, Finish
    <3>5. Recorded'
      BY <2>11 DEF Stages, Recorded, Named, Finish
    <3>6. QED
      BY <3>1, <3>2, <3>3, <3>4, <3>5
  <2>12. CASE Cancel
    <3>1. TypeOK'
      BY <2>12 DEF TypeOK, Cancel
    <3>2. Stages'
      BY <2>12 DEF Stages, Group, Cancel
    <3>3. Placed'
      BY <2>12 DEF Placed, Group, Ended, Cancel
    <3>4. Covered'
      BY <2>12 DEF Covered, Group, Ended, Cancel
    <3>5. Recorded'
      BY <2>12 DEF Recorded, Group, Cancel
    <3>6. QED
      BY <3>1, <3>2, <3>3, <3>4, <3>5
  <2>13. ASSUME NEW w \in Workers, Receive(w) PROVE IInv'
    <3>1. TypeOK'
      BY <2>13 DEF TypeOK, Receive
    <3>2. Stages'
      BY <2>13 DEF Stages, Receive
    <3>3. Placed'
      BY <2>13 DEF Placed, TypeOK, Group, Ended, Receive
    <3>4. Covered'
      BY <2>13 DEF Covered, TypeOK, Group, Ended, Receive
    <3>5. Recorded'
      BY <2>13 DEF Recorded, Group, Receive
    <3>6. QED
      BY <3>1, <3>2, <3>3, <3>4, <3>5
  <2>14. ASSUME NEW w \in Workers, Answer(w) PROVE IInv'
    <3>1. TypeOK'
      <4>1. holding[w] \in Tasks
        BY <2>14 DEF Placed, Group, Answer
      <4>2. QED
        BY <2>14, <4>1 DEF TypeOK, Pairs, Answer
    <3>2. Stages'
      BY <2>14 DEF Stages, Answer
    <3>3. Placed'
      BY <2>14 DEF Placed, TypeOK, Group, Ended, Named, Answer
    <3>4. Covered'
      <4>1. Ended' = Ended \cup {holding[w]}
        <5>1. PICK o \in Outcomes : results' = results \cup {<<holding[w], o>>}
          BY <2>14 DEF Answer
        <5>2. Named(results') = Named(results) \cup {holding[w]}
          BY <5>1, NamedAdd
        <5>3. collected' = collected /\ all' = all
          BY <2>14 DEF Answer
        <5>4. QED
          BY <5>2, <5>3 DEF Ended
      <4>2. Group(level)' = Group(level)
        BY <2>14 DEF Group, Answer
      <4>3. \A v \in Workers \ {w} : worker'[v] = worker[v] /\ holding'[v] = holding[v]
        BY <2>14 DEF TypeOK, Answer
      <4>4. SUFFICES ASSUME pc \in {"send", "collect", "gathered"}, NEW t \in Group(level)
                     PROVE  \/ t \in unsent \cup jobs \cup Ended'
                            \/ \E v \in Workers : worker'[v] = "running" /\ holding'[v] = t
        BY <2>14, <4>2 DEF Covered, Answer
      <4>5. CASE t \in unsent \cup jobs \cup Ended
        BY <4>1, <4>5
      <4>6. CASE \E v \in Workers : worker[v] = "running" /\ holding[v] = t
        <5>1. PICK v \in Workers : worker[v] = "running" /\ holding[v] = t
          BY <4>6
        <5>2. CASE v = w
          BY <4>1, <5>1, <5>2
        <5>3. CASE v # w
          BY <4>3, <5>1, <5>3
        <5>4. QED
          BY <5>2, <5>3
      <4>7. QED
        BY <4>4, <4>5, <4>6 DEF Covered
    <3>5. Recorded'
      BY <2>14 DEF Placed, Recorded, Group, Ended, Named, Answer
    <3>6. QED
      BY <3>1, <3>2, <3>3, <3>4, <3>5
  <2>15. ASSUME NEW w \in Workers, Leave(w) PROVE IInv'
    <3>1. TypeOK'
      BY <2>15 DEF TypeOK, Leave
    <3>2. Stages'
      BY <2>15 DEF Stages, Leave
    <3>3. Placed'
      BY <2>15 DEF Placed, Group, Ended, Leave
    <3>4. Covered'
      BY <2>15 DEF Covered, Group, Ended, Leave
    <3>5. Recorded'
      BY <2>15 DEF Recorded, Group, Leave
    <3>6. QED
      BY <3>1, <3>2, <3>3, <3>4, <3>5
  <2>16. CASE UNCHANGED vars
    BY <2>16 DEF Stages, Placed, Covered, Recorded, TypeOK, Group, Ended, vars
  <2>17. QED
    BY <2>1, <2>2, <2>3, <2>4, <2>5, <2>6, <2>7, <2>8, <2>9, <2>10, <2>11, <2>12, <2>13,
       <2>14, <2>15, <2>16 DEF Next, Dispatch, Work
<1>3. QED
  BY <1>1, <1>2, PTL DEF Spec

\* Every variable keeps its type.
THEOREM TypeCorrect == Spec => []TypeOK
<1>1. IInv => TypeOK
  BY DEF IInv
<1>2. QED
  BY <1>1, Inductive, PTL

\* A Dispatch that returns without an error has one result for every task, and an
\* interrupted one all the results of its groups.
THEOREM ResultsComplete == Spec => []OneResultEach
<1>1. IInv => OneResultEach
  BY DEF IInv, Stages, Recorded, OneResultEach
<1>2. QED
  BY <1>1, Inductive, PTL

\* No job, result or worker of a group is left when the next one starts.
THEOREM GroupsApart == Spec => []PoolDrained
<1>1. IInv => PoolDrained
  BY DEF IInv, Stages, PoolDrained
<1>2. QED
  BY <1>1, Inductive, PTL

-----------------------------------------------------------------------------
(* TaskRunner implements PlanExecution.                                    *)

\* A worker that is free leaves room in the pool.
LEMMA RoomInPool ==
    ASSUME alone = None, NEW w \in Workers, worker[w] # "running"
    PROVE  Cardinality(Active) < MaxConcurrent
<1> DEFINE Busy == {v \in Workers : worker[v] = "running"}
           Others == Workers \ {w}
           f == [v \in Busy |-> holding[v]]
<1>1. IsFiniteSet(Workers) /\ Cardinality(Workers) = MaxConcurrent
  BY RunnerAssumption, FS_Interval DEF Workers
<1>2. IsFiniteSet(Others) /\ Cardinality(Others) = MaxConcurrent - 1
  BY <1>1, FS_RemoveElement
<1>3. IsFiniteSet(Busy) /\ Cardinality(Busy) <= Cardinality(Others)
  <2>1. Busy \in SUBSET Others
    OBVIOUS
  <2>2. QED
    BY <1>2, <2>1, FS_Subset
<1>4. f \in Surjection(Busy, Running)
  BY DEF Surjection, Running
<1>5. IsFiniteSet(Running) /\ Cardinality(Running) <= Cardinality(Busy)
  <2> HIDE DEF Busy, f
  <2>1. QED
    BY <1>3, <1>4, FS_Surjection
<1>6. /\ Cardinality(Running) \in Nat /\ Cardinality(Busy) \in Nat
      /\ Cardinality(Others) \in Nat
  BY <1>2, <1>3, <1>5, FS_CardinalityType
<1>7. Active = Running
  BY DEF Active
<1>8. QED
  <2> HIDE DEF Busy, Others
  <2>1. QED
    BY <1>2, <1>3, <1>5, <1>6, <1>7, RunnerAssumption

\* A task of the group in progress may start: what it depends on has a result.
LEMMA DependenciesEnded ==
    ASSUME IInv, pc \notin {"start", "refused"}, NEW t \in Group(level)
    PROVE  deps[t] \cap Tasks \subseteq Ended
<1> SUFFICES ASSUME NEW x \in deps[t] \cap Tasks PROVE x \in Ended
  OBVIOUS
<1>1. IsDepth(deps, depth) /\ t \in Tasks /\ depth[t] = level
  BY DEF IInv, Stages, Group
<1>2. depth[x] < depth[t]
  BY <1>1 DEF IsDepth, DepthIn
<1>3. QED
  BY <1>1, <1>2 DEF IInv, Recorded, Ended

\* The size of a set is the same on both sides.
LEMMA SameCardinality == \A S : Execution!Cardinality(S) = Cardinality(S)
  BY Zenon DEF Execution!Cardinality, Cardinality

\* Each step starts one task that may start, ends one task in progress, or does
\* neither.
LEMMA StepOfExecution ==
    ASSUME IInv, [Next]_vars
    PROVE  [Execution!Next]_(Execution!vars)
<1> USE DEF chanVars, poolVars
<1>1. CASE RunAlone
  <2>1. PICK t \in Tasks : Group(level) = {t} /\ alone' = t
    BY <1>1 DEF RunAlone
  <2>2. Running = {} /\ Running' = {} /\ alone = None
    BY <1>1 DEF RunAlone, IInv, Stages, Running
  <2>3. Active = {} /\ Active' = {t} /\ Ended' = Ended /\ deps' = deps
    BY <1>1, <2>1, <2>2, RunnerAssumption DEF RunAlone, Active, Ended
  <2>4. t \notin Ended
    BY <1>1, <2>1 DEF RunAlone, IInv, Stages, Recorded, Ended, Group, Named, TypeOK
  <2>5. deps[t] \cap Tasks \subseteq Ended
    BY <1>1, <2>1, DependenciesEnded DEF RunAlone
  <2>6. Cardinality(Active) < MaxConcurrent
    BY <2>3, FS_EmptySet, RunnerAssumption
  <2>7. Execution!Start(t)
    BY <2>3, <2>4, <2>5, <2>6, SameCardinality DEF Execution!Start
  <2>8. QED
    BY <2>7 DEF Execution!Next
<1>2. ASSUME NEW w \in Workers, Receive(w) PROVE Execution!Next
  <2>1. PICK t \in jobs : holding' = [holding EXCEPT ![w] = t]
    BY <1>2 DEF Receive
  <2>2. t \in Group(level) /\ t \in Tasks /\ t \notin Ended
    BY DEF IInv, Placed, Group
  <2>3. alone = None /\ pc \notin {"start", "refused"}
    BY <2>1 DEF IInv, Stages
  <2>4. t \notin Active
    BY <2>3 DEF IInv, Placed, Active, Running
  <2>5. Active' = Active \cup {t} /\ Ended' = Ended /\ deps' = deps
    <3>1. Running' = Running \cup {t}
      BY <1>2, <2>1 DEF Receive, IInv, TypeOK, Running
    <3>2. QED
      BY <1>2, <2>3, <3>1 DEF Receive, Active, Ended
  <2>6. deps[t] \cap Tasks \subseteq Ended
    BY <2>2, <2>3, DependenciesEnded
  <2>7. Cardinality(Active) < MaxConcurrent
    BY <1>2, <2>3, RoomInPool DEF Receive
  <2>8. Execution!Start(t)
    BY <2>2, <2>4, <2>5, <2>6, <2>7, SameCardinality DEF Execution!Start
  <2>9. QED
    BY <2>2, <2>8 DEF Execution!Next
<1>3. CASE AloneEnds
  <2>1. Running = {} /\ Running' = {} /\ alone \in Tasks /\ alone' = None
    BY <1>3 DEF AloneEnds, IInv, Stages, Running
  <2>2. Active = {alone} /\ Active' = {}
    BY <2>1, RunnerAssumption DEF Active
  <2>3. Ended' = Ended \cup {alone} /\ deps' = deps
    <3>1. PICK o \in Outcomes : collected' = {} \cup {<<alone, o>>}
      BY <1>3 DEF AloneEnds
    <3>2. Named(collected') = {alone} /\ collected = {} /\ Named({}) = {}
      BY <1>3, <3>1, NamedAdd DEF AloneEnds, IInv, Stages, Named
    <3>3. results' = results /\ all' = all /\ deps' = deps
      BY <1>3 DEF AloneEnds
    <3>4. QED
      BY <3>2, <3>3 DEF Ended
  <2>4. QED
    BY <2>1, <2>2, <2>3 DEF Execution!Next, Execution!End
<1>4. ASSUME NEW w \in Workers, Answer(w) PROVE Execution!Next
  <2>1. PICK o \in Outcomes : results' = results \cup {<<holding[w], o>>}
    BY <1>4 DEF Answer
  <2>2. holding[w] \in Tasks /\ alone = None /\ alone' = None
    BY <1>4 DEF Answer, IInv, Stages, Placed, Group
  <2>3. holding[w] \in Active /\ Active' = Active \ {holding[w]}
    <3>1. Running' = Running \ {holding[w]}
      BY <1>4 DEF Answer, IInv, TypeOK, Placed, Running
    <3>2. QED
      BY <1>4, <2>2, <3>1 DEF Answer, Active, Running
  <2>4. Ended' = Ended \cup {holding[w]} /\ deps' = deps
    <3>1. Named(results') = Named(results) \cup {holding[w]}
      BY <2>1, NamedAdd
    <3>2. QED
      BY <1>4, <3>1 DEF Answer, Ended
  <2>5. QED
    BY <2>2, <2>3, <2>4 DEF Execution!Next, Execution!End
<1>5. CASE StartPool
  <2>1. Running = {} /\ Running' = {}
    BY <1>5 DEF StartPool, IInv, Stages, Running
  <2>2. QED
    BY <1>5, <2>1 DEF StartPool, Active, Ended, Execution!vars
<1>6. CASE Collect
  <2>1. Named(results') \cup Named(collected') = Named(results) \cup Named(collected)
    BY <1>6 DEF Collect, Named
  <2>2. QED
    BY <1>6, <2>1 DEF Collect, Active, Running, Ended, Execution!vars
<1>7. CASE NextGroup
  <2>1. Named(collected') \cup Named(all') = Named(collected) \cup Named(all)
    BY <1>7 DEF NextGroup, Named
  <2>2. QED
    BY <1>7, <2>1 DEF NextGroup, Active, Running, Ended, Execution!vars
<1>8. ASSUME NEW w \in Workers, Leave(w) PROVE UNCHANGED Execution!vars
  <2>1. Running' = Running
    BY <1>8 DEF Leave, IInv, TypeOK, Running
  <2>2. QED
    BY <1>8, <2>1 DEF Leave, Active, Ended, Execution!vars
<1>9. CASE \/ GetGroups \/ SkipLevel \/ SendJob \/ CloseJobs \/ Collected \/ Finish
           \/ Cancel \/ UNCHANGED vars
  BY <1>9 DEF GetGroups, SkipLevel, SendJob, CloseJobs, Collected, Finish, Cancel, vars,
              Active, Running, Ended, Execution!vars
<1>10. QED
  BY <1>1, <1>2, <1>3, <1>4, <1>5, <1>6, <1>7, <1>8, <1>9 DEF Next, Dispatch, Work

\* The pool runs each task once, after what it depends on, and never more than
\* MaxConcurrent of them at a time.
THEOREM RunsAsPlanned == Spec => RunsThePlan
<1>1. Init => Execution!Init
  BY RunnerAssumption DEF Init, Execution!Init, Active, Running, Ended, Named
<1>2. QED
  BY <1>1, StepOfExecution, Inductive, PTL DEF Spec, RunsThePlan, Execution!Spec
=============================================================================
