---------------------------- MODULE KnowledgeGraph ----------------------------
(***************************************************************************)
(* The knowledge graph (memory/kg, store/entities.go, the entity handlers  *)
(* of cmd/backend/main.go).  Relationships are added between entities that *)
(* exist; three breadth-first walks answer queries: the inference chain    *)
(* between two entities, the closure of one, and its neighbourhood.  A     *)
(* walk takes one entity off the queue and reads its relationships, or     *)
(* looks at one of the rows it has read, which come in whatever order;     *)
(* each read may fail, and the walk then goes on without.  The limit of a  *)
(* closure, which cuts it to so many of what it has found, is left out.    *)
(***************************************************************************)
EXTENDS Naturals, Sequences, FiniteSets, Functions

CONSTANTS
    Entity,      \* the rows of entities
    RelType,     \* types of relationships
    StartFrom,   \* entities queries start from
    Depth,       \* depths queries ask for
    Types,       \* the filters they give: sets of types, {} for none
    MaxLinks,    \* bound: relationships
    MaxReadFailures \* bound: reads that fail in a walk

ASSUME KnowledgeGraphAssumption ==
    /\ IsFiniteSet(Entity)
    /\ Entity # {}
    /\ StartFrom \subseteq Entity
    /\ Depth \subseteq Nat
    /\ Types \subseteq SUBSET RelType
    /\ MaxReadFailures \in Nat

VARIABLES
    links,   \* the rows of entity_relationships: source, target, type
    walk     \* the query being answered

graphVars == <<links, walk>>

NoWalk == [op |-> "none"]

GraphInit ==
    /\ links = {}
    /\ walk = NoWalk

\* WHERE source_entity_id = $1 OR target_entity_id = $1
Relationships(e) == {l \in links : e \in {l[1], l[2]}}
Neighbour(l, e)  == IF l[1] # e THEN l[1] ELSE l[2]
Passes(l, types) == types = {} \/ l[3] \in types

\* ON CONFLICT (source, target, type) DO UPDATE: the same relationship again is the same row.
InsertEntityRelationship(s, t, type) ==
    /\ Cardinality(links \cup {<<s, t, type>>}) <= MaxLinks
    /\ links' = links \cup {<<s, t, type>>}
    /\ UNCHANGED walk

\* Both entities have to be there, and be two.
CreateEntityRelationship(s, t, type) ==
    /\ walk = NoWalk
    /\ s # t
    /\ InsertEntityRelationship(s, t, type)

-----------------------------------------------------------------------------
(* Queries.                                                                *)

OrDefault(d, default) == IF d = 0 THEN default ELSE d

Queued(e, d, p) == [id |-> e, depth |-> d, path |-> p]

\* node: the last taken off the queue.     rows: its rows that are left.
NewWalk(op, e, end, d, types) ==
    [op |-> op, start |-> e, end |-> end, depth |-> d, types |-> types,
     queue |-> <<Queued(e, 0, <<>>)>>, node |-> Queued(e, 0, <<>>), rows |-> {},
     visited |-> {e}, entities |-> {e}, rels |-> {},
     chain |-> <<>>, done |-> FALSE, failures |-> 0]

StartWalk(op, e, end, d, types) ==
    /\ walk = NoWalk
    /\ walk' = NewWalk(op, e, end, d, types)
    /\ UNCHANGED links

\* A query of one table is answered at once.
Listed(found) ==
    /\ walk = NoWalk
    /\ walk' = [NewWalk("list", CHOOSE e \in Entity : TRUE, {}, 0, {})
                   EXCEPT !.entities = found, !.done = TRUE]
    /\ UNCHANGED links

\* KGQuery.Query: a chain if an end is named, else the closure.
Query(e, end, d, types) ==
    StartWalk(IF end = {} THEN "closure" ELSE "chain", e, end, OrDefault(d, 3), types)

GetInferenceChain(e, end, d) == Query(e, {end}, OrDefault(d, 3), {})

GetEntityGraph(e, d) == StartWalk("graph", e, {}, OrDefault(d, 3), {})

\* The page shows the neighbourhood.
RenderHTML(e, d) == GetEntityGraph(e, OrDefault(d, 3))

\* By name or by type, so many of the most mentioned: which they are is left open.
SearchEntities    == \E found \in SUBSET Entity : Listed(found)
GetEntitiesByType == \E found \in SUBSET Entity : Listed(found)

\* It asks the LLM, and passes over each entity the table refuses: entities has no
\* unique key on name and type, and the upsert wants one.
ExtractEntities == Listed({})

\* What has not been visited is queued.
Discover(w, e, p) ==
    [w EXCEPT !.visited = @ \cup {e}, !.queue = Append(@, Queued(e, w.node.depth + 1, p))]

\* A slip: a relationship back to what has been visited is passed over.
CollectNew(w, l) ==
    LET e == Neighbour(l, w.node.id) IN
    IF ~Passes(l, w.types) \/ e \in w.visited THEN w
    ELSE [Discover(w, e, <<>>) EXCEPT !.rels = @ \cup {l}, !.entities = @ \cup {e}]

\* One row of the relationships of a node, in transitiveClosure and GetEntityGraph.
Collect(w, l) ==
    LET e == Neighbour(l, w.node.id) IN
    IF ~Passes(l, w.types) \/ l \in w.rels THEN w
    ELSE IF e \in w.visited THEN [w EXCEPT !.rels = @ \cup {l}]
    ELSE [Discover(w, e, <<>>) EXCEPT !.rels = @ \cup {l}, !.entities = @ \cup {e}]

\* One row of them in findInferenceChain, which looks for its end before it looks
\* whether it has been there.
Follow(w, l) ==
    LET e == Neighbour(l, w.node.id) IN
    IF ~Passes(l, w.types) THEN w
    ELSE IF e \in w.end
    THEN [w EXCEPT !.chain = Append(w.node.path, l), !.rows = {}, !.done = TRUE]
    ELSE IF e \in w.visited THEN w
    ELSE Discover(w, e, Append(w.node.path, l))

Walking == walk # NoWalk /\ ~walk.done /\ (walk.queue # <<>> \/ walk.rows # {})

RowTaken(l) == [walk EXCEPT !.rows = @ \ {l}]

transitiveClosure ==
    /\ Walking /\ walk.op # "chain"
    /\ \E l \in walk.rows : walk' = Collect(RowTaken(l), l)
    /\ UNCHANGED links

findInferenceChain ==
    /\ Walking /\ walk.op = "chain"
    /\ \E l \in walk.rows : walk' = Follow(RowTaken(l), l)
    /\ UNCHANGED links

\* What a row leads to cannot be read, and counts as visited.
GetEntityFails ==
    /\ Walking /\ walk.op # "chain"
    /\ walk.failures < MaxReadFailures
    /\ \E l \in walk.rows :
          LET e == Neighbour(l, walk.node.id) IN
          /\ Passes(l, walk.types) /\ l \notin walk.rels /\ e \notin walk.visited
          /\ walk' = [RowTaken(l) EXCEPT !.rels = @ \cup {l}, !.visited = @ \cup {e},
                                        !.failures = @ + 1]
    /\ UNCHANGED links

Popped == [walk EXCEPT !.queue = Tail(@), !.node = Head(walk.queue)]

\* The relationships of the first of the queue are read, unless it is deep enough.
ReadRelationships ==
    /\ Walking /\ walk.rows = {}
    /\ walk' = IF Head(walk.queue).depth >= walk.depth THEN Popped
               ELSE [Popped EXCEPT !.rows = Relationships(Head(walk.queue).id)]
    /\ UNCHANGED links

ReadFails ==
    /\ Walking /\ walk.rows = {}
    /\ Head(walk.queue).depth < walk.depth
    /\ walk.failures < MaxReadFailures
    /\ walk' = [Popped EXCEPT !.failures = @ + 1]
    /\ UNCHANGED links

\* The answer: for a chain its entities, or the two ends when there is none.
Answered == walk # NoWalk /\ ~Walking

buildResultFromChain ==
    IF walk.op # "chain" THEN walk.entities
    ELSE IF walk.chain = <<>> THEN {walk.start} \cup walk.end
    ELSE UNION {{l[1], l[2]} : l \in Range(walk.chain)}

GraphReply ==
    /\ Answered
    /\ walk' = NoWalk
    /\ UNCHANGED links

-----------------------------------------------------------------------------
(* The handlers.  A depth that is missing is 0; one that refuses its       *)
(* parameters, or whose first statement fails, changes nothing.            *)

handleMemoryExtractEntities == ExtractEntities

handleMemoryGetInferenceChain ==
    \E e \in StartFrom, end \in Entity, d \in Depth : GetInferenceChain(e, end, OrDefault(d, 3))

handleMemoryQueryKG ==
    \E e \in StartFrom, end \in {{}} \cup {{f} : f \in Entity}, d \in Depth, types \in Types :
       Query(e, end, d, types)

handleMemorySearchEntities == SearchEntities

\* A type that is none of the seven is refused.
handleMemoryGetEntitiesByType == GetEntitiesByType

handleMemoryCreateEntityRelationship ==
    \E s, t \in Entity, type \in RelType : CreateEntityRelationship(s, t, type)

handleMemoryGetEntityGraph ==
    \E e \in StartFrom, d \in Depth : GetEntityGraph(e, OrDefault(d, 1))

handleMemoryRenderGraphHTML ==
    \E e \in StartFrom, d \in Depth : RenderHTML(e, OrDefault(d, 1))

GraphNext ==
    \/ handleMemoryExtractEntities
    \/ handleMemoryGetInferenceChain
    \/ handleMemoryQueryKG
    \/ handleMemorySearchEntities
    \/ handleMemoryGetEntitiesByType
    \/ handleMemoryCreateEntityRelationship
    \/ handleMemoryGetEntityGraph
    \/ handleMemoryRenderGraphHTML
    \/ transitiveClosure
    \/ findInferenceChain
    \/ GetEntityFails
    \/ ReadRelationships
    \/ ReadFails
    \/ GraphReply

GraphSpec == GraphInit /\ [][GraphNext]_graphVars

-----------------------------------------------------------------------------
GraphTypeOK ==
    /\ links \subseteq Entity \X Entity \X RelType
    /\ walk # NoWalk =>
          /\ walk.visited \subseteq Entity
          /\ walk.entities \subseteq Entity
          /\ walk.rels \subseteq links
          /\ walk.failures \in 0..MaxReadFailures

Usable == {l \in links : Passes(l, walk.types)}

\* The reference: the entities within n relationships of from.
Within(from, over, n) ==
    {e \in Entity : \E m \in 0..n : \E at \in [0..m -> Entity] :
        /\ at[0] = from /\ at[m] = e
        /\ \A i \in 1..m : \E l \in over : {l[1], l[2]} = {at[i - 1], at[i]}}

\* p leads from one entity to another, relationship by relationship.
Leads(p, from, to) ==
    \E at \in [0..Len(p) -> Entity] :
       /\ at[0] = from /\ at[Len(p)] = to
       /\ \A i \in DOMAIN p : {p[i][1], p[i][2]} = {at[i - 1], at[i]}

\* What a walk answers is what the graph holds, though it stops at what it has seen:
\* a chain leads from one entity to the other over relationships of the types asked
\* for, and there is none shorter; without one, the other entity is farther than the
\* depth.  The closure is all entities within the depth, and every relationship of
\* those nearer than it.  A failed read makes an answer miss something, never make
\* something up (kg/queries.go:94, :182, kg/entities.go:222).
WalksAreExact ==
    Answered /\ walk.op # "list" =>
        LET Near(n) == Within(walk.start, Usable, n) IN
        IF walk.op = "chain"
        THEN /\ walk.chain # <<>> =>
                   /\ Range(walk.chain) \subseteq Usable
                   /\ \E e \in walk.end : Leads(walk.chain, walk.start, e)
                   /\ Len(walk.chain) <= walk.depth
             /\ walk.failures = 0 /\ walk.end # {walk.start} =>
                   IF walk.chain = <<>> THEN walk.end \cap Near(walk.depth) = {}
                   ELSE walk.end \cap Near(Len(walk.chain) - 1) = {}
        ELSE /\ buildResultFromChain \subseteq Near(walk.depth)
             /\ walk.rels \subseteq Usable
             /\ walk.failures = 0 =>
                   /\ buildResultFromChain = Near(walk.depth)
                   /\ walk.rels = {l \in Usable : {l[1], l[2]} \cap Near(walk.depth - 1) # {}}
=============================================================================
