----------------------------- MODULE BackendProofs -----------------------------
(***************************************************************************)
(* What is proved of an area holds in the backend: whatever area a session *)
(* is of, each step of the backend is a step of the area or leaves its     *)
(* tables and objects alone, so the backend implements the area's          *)
(* specification, and the area's theorems are theorems about the backend.  *)
(***************************************************************************)
EXTENDS Backend, MemoryProofs, OrchestrationProofs

\* Every step of the backend is one of each area, or a stutter of it.
LEMMA StepOfAreas ==
  ASSUME [Next]_vars
  PROVE  /\ [TrustNext]_trustVars
         /\ [ThoughtNext]_thoughtVars
         /\ [SearchNext]_search
         /\ [CycleNext]_cycleVars
         /\ [SummaryNext]_summaryVars
         /\ [MigrationNext]_migrationVars
         /\ [SkillsNext]_skills
         /\ [OwnershipNext]_ownershipVars
         /\ [GraphNext]_graphVars
         /\ [IndexNext]_indexVars
         /\ [BrokerNext]_broker
         /\ [PeersNext]_peers
<1>1. CASE UNCHANGED vars
  BY <1>1 DEF vars
<1>2. CASE Only("trust") /\ TrustNext
  BY <1>2, Zenon DEF Only
<1>3. CASE Only("thought") /\ ThoughtNext
  BY <1>3, Zenon DEF Only
<1>4. CASE Only("search") /\ SearchNext
  BY <1>4, Zenon DEF Only
<1>5. CASE Only("cycle") /\ CycleNext
  BY <1>5, Zenon DEF Only
<1>6. CASE Only("tier") /\ SummaryNext
  BY <1>6, Zenon DEF Only
<1>7. CASE Only("migrate") /\ MigrationNext
  BY <1>7, Zenon DEF Only
<1>8. CASE Only("skills") /\ SkillsNext
  BY <1>8, Zenon DEF Only
<1>9. CASE Only("files") /\ OwnershipNext
  BY <1>9, Zenon DEF Only
<1>10. CASE Only("graph") /\ GraphNext
  BY <1>10, Zenon DEF Only
<1>11. CASE Only("index") /\ IndexNext
  BY <1>11, Zenon DEF Only
<1>12. CASE Only("broker") /\ BrokerNext
  BY <1>12, Zenon DEF Only
<1>13. CASE Only("peers") /\ PeersNext
  BY <1>13, Zenon DEF Only
<1> QED
  BY <1>1, <1>2, <1>3, <1>4, <1>5, <1>6, <1>7, <1>8, <1>9, <1>10, <1>11,
     <1>12, <1>13
  DEF Next

\* The backend implements the specification of each of its twelve areas.
THEOREM BackendImplementsAreas ==
  Spec => /\ TrustSpec /\ ThoughtSpec /\ SearchSpec /\ CycleSpec
          /\ SummarySpec /\ MigrationSpec /\ SkillsSpec /\ OwnershipSpec /\ GraphSpec
          /\ IndexSpec /\ BrokerSpec /\ PeersSpec
<1>1. Init => /\ TrustInit /\ ThoughtInit /\ SearchInit /\ CycleInit
              /\ SummaryInit /\ MigrationInit /\ SkillsInit /\ OwnershipInit /\ GraphInit
              /\ IndexInit /\ BrokerInit /\ PeersInit
  BY DEF Init
<1>2. [Next]_vars => /\ [TrustNext]_trustVars /\ [ThoughtNext]_thoughtVars
                     /\ [SearchNext]_search /\ [CycleNext]_cycleVars
                     /\ [SummaryNext]_summaryVars /\ [MigrationNext]_migrationVars
                     /\ [SkillsNext]_skills /\ [OwnershipNext]_ownershipVars
                     /\ [GraphNext]_graphVars /\ [IndexNext]_indexVars
                     /\ [BrokerNext]_broker /\ [PeersNext]_peers
  BY StepOfAreas
<1> QED  BY <1>1, <1>2, PTL DEF Spec, TrustSpec, ThoughtSpec, SearchSpec, CycleSpec,
                               SummarySpec, MigrationSpec, SkillsSpec, OwnershipSpec, GraphSpec,
                               IndexSpec, BrokerSpec, PeersSpec

\* In the backend: what is archived stays archived and what is superseded is
\* archived, a chain's history can be read, a fused answer respects dominance, no task
\* gets ahead of the protocol unseen, a summary is served in time, no original vector
\* is lost, a skill is offered by the scope file, a file has one owner, a walk of the
\* knowledge graph answers what the graph holds, and a file that the next run of Index
\* will pass over is indexed as it is.
THEOREM BackendKeepsItsPromises ==
  Spec => /\ ArchivedStays
          /\ []SupersededIsArchived
          /\ []HistoryReadable
          /\ []FusionRespectsDominance
          /\ []NoSilentSkip
          /\ []SummaryInTime
          /\ []OriginalKept
          /\ []OfferedByScope
          /\ []OneOwner
          /\ []WalksAreExact
          /\ []UnchangedIsIndexed
  BY BackendImplementsAreas, ArchivedForGood, SupersededAlwaysArchived, AlwaysReadable,
     AlwaysRespectsDominance, NothingSkippedSilently, ServedInTime, OriginalNeverLost,
     AlwaysOfferedByScope, OneOwnerAlways, AlwaysExact, AlwaysIndexed, PTL
\* Whatever area a session is of, the tables and objects of the area are of their types:
\* each area's handlers, goroutines, timers and restarts, as the backend runs them
\* (cmd/backend/main.go), keep what its statements, CHECKs and keys say of them.
THEOREM BackendTypeCorrect == Spec => []BackendTypeOK
<1>1. Init => session \in Sessions
  BY DEF Init
<1>2. session \in Sessions /\ [Next]_vars => (session \in Sessions)'
  BY Zenon DEF Next, Only, vars
<1>3. OwnershipInv => OwnershipTypeOK
  BY DEF OwnershipInv
<1>4. /\ session \in Sessions /\ TrustTypeOK /\ IndexTypeOK /\ ThoughtTypeOK
      /\ SearchTypeOK /\ GraphTypeOK /\ CycleTypeOK /\ SummaryTypeOK /\ MigrationTypeOK
      /\ SkillsTypeOK /\ BrokerTypeOK /\ PeersTypeOK /\ OwnershipTypeOK
      => BackendTypeOK
  BY Zenon DEF BackendTypeOK
<1> QED
  BY <1>1, <1>2, <1>3, <1>4, BackendImplementsAreas, TrustTypeCorrect, AlwaysIndexed,
     ThoughtTypeCorrect, SearchTypeCorrect, GraphTypeCorrect, CycleTypeCorrect,
     SummaryTypeCorrect, MigrationTypeCorrect, SkillsTypeCorrect, BrokerTypeCorrect,
     PeersTypeCorrect, OwnershipInductive, PTL
  DEF Spec
================================================================================
