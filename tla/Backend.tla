------------------------------- MODULE Backend -------------------------------
(***************************************************************************)
(* The backend process (cmd/backend/main.go, memory.go's New): it makes    *)
(* the memory system, the orchestrator and the broker, and its request     *)
(* loop passes each request to the handler of its method, one at a time.   *)
(*                                                                         *)
(* Handlers of different areas write different tables and objects, so the  *)
(* requests of two areas commute, and a session here is of one area: its   *)
(* handlers, interleaved with the goroutines, timers, statements, crashes  *)
(* and restarts the area's module has.  Where an area depends on another,  *)
(* the module of the area has the other's steps as it sees them.           *)
(***************************************************************************)
EXTENDS TrustAndDecay, ProjectIndex, ThoughtChains, RankFusion, KnowledgeGraph,
        TaskCycle, TieredSummaries, EmbeddingMigration, SkillScope, ToolBroker,
        PeerServices, FileOwnership

CONSTANT Sessions   \* bound: the areas sessions are of

Area == {"trust", "index", "thought", "search", "graph", "cycle", "tier", "migrate",
         "skills", "broker", "peers", "files"}

ASSUME SessionsAssumption == Sessions \subseteq Area

VARIABLE session   \* the area this session is of

vars == <<session, trustVars, indexVars, thoughtVars, search, graphVars, cycleVars,
          summaryVars, migrationVars, skills, broker, peers, ownershipVars>>

AnySkills == CHOOSE s \in [scope: Scopes, local: LocalSkills, external: ExternalSkills,
                           answer: {NoAnswerYet}] : TRUE
AnyPlan   == [t \in FineTask |-> [file |-> CHOOSE f \in TargetFile : TRUE, dependsOn |-> {}]]

\* New, and the start of a process: every area in its first state, configured as
\* main has it where the session does not depend on it.
Init ==
    /\ session \in Sessions
    /\ TrustInit
    /\ IndexInit     /\ (session # "index" => ~watching /\ served = 0)
    /\ ThoughtInit
    /\ SearchInit
    /\ GraphInit
    /\ CycleInit     /\ (session # "cycle" => strictness = "standard" /\ stateless)
    /\ SummaryInit
    /\ MigrationInit /\ (session # "migrate" => embedder = DefaultLabel)
    /\ SkillsInit    /\ (session # "skills" => skills = AnySkills)
    /\ BrokerInit
    /\ PeersInit     /\ (session # "peers" => peers.tools = <<>>)
    /\ OwnershipInit /\ (session # "files" => entry = AnyPlan)

\* The areas but this one stay as they are.
Only(area) ==
    /\ session = area
    /\ UNCHANGED session
    /\ area # "trust"   => UNCHANGED trustVars
    /\ area # "index"   => UNCHANGED indexVars
    /\ area # "thought" => UNCHANGED thoughtVars
    /\ area # "search"  => UNCHANGED search
    /\ area # "graph"   => UNCHANGED graphVars
    /\ area # "cycle"   => UNCHANGED cycleVars
    /\ area # "tier"    => UNCHANGED summaryVars
    /\ area # "migrate" => UNCHANGED migrationVars
    /\ area # "skills"  => UNCHANGED skills
    /\ area # "broker"  => UNCHANGED broker
    /\ area # "peers"   => UNCHANGED peers
    /\ area # "files"   => UNCHANGED ownershipVars

Next ==
    \/ Only("trust")   /\ TrustNext
    \/ Only("index")   /\ IndexNext
    \/ Only("thought") /\ ThoughtNext
    \/ Only("search")  /\ SearchNext
    \/ Only("graph")   /\ GraphNext
    \/ Only("cycle")   /\ CycleNext
    \/ Only("tier")    /\ SummaryNext
    \/ Only("migrate") /\ MigrationNext
    \/ Only("skills")  /\ SkillsNext
    \/ Only("broker")  /\ BrokerNext
    \/ Only("peers")   /\ PeersNext
    \/ Only("files")   /\ OwnershipNext

Spec == Init /\ [][Next]_vars /\ TrustFairness /\ IndexFairness

BackendTypeOK ==
    /\ session \in Sessions
    /\ session = "trust"   => TrustTypeOK
    /\ session = "index"   => IndexTypeOK
    /\ session = "thought" => ThoughtTypeOK
    /\ session = "search"  => SearchTypeOK
    /\ session = "graph"   => GraphTypeOK
    /\ session = "cycle"   => CycleTypeOK
    /\ session = "tier"    => SummaryTypeOK
    /\ session = "migrate" => MigrationTypeOK
    /\ session = "skills"  => SkillsTypeOK
    /\ session = "broker"  => BrokerTypeOK
    /\ session = "peers"   => PeersTypeOK
    /\ session = "files"   => OwnershipTypeOK
=============================================================================
