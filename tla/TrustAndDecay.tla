---------------------------- MODULE TrustAndDecay ----------------------------
(***************************************************************************)
(* What happens to the trust score and the archive flag of a memory.       *)
(*                                                                         *)
(* Two goroutines write them: the request loop of the backend, which       *)
(* serves one request at a time (trust/engine.go, decay/consolidate.go,    *)
(* dialectic/engine.go, and ElevateMemory, AddMemory and DeleteMemory of   *)
(* memory.go, behind the memory.* handlers of cmd/backend/main.go), and    *)
(* the decay scheduler (decay/scheduler.go, decay/engine.go).  Neither     *)
(* uses a transaction, so each statement is an action here and what a      *)
(* handler has read is kept in request until its next statement.  Every    *)
(* statement may fail.  A third goroutine waits for a signal and closes    *)
(* the system.                                                             *)
(***************************************************************************)
EXTENDS MemoryTables

CONSTANTS
    Rows0,        \* the rows of memories when the backend starts
    AutoMode,     \* EMBEDDING_MODE=auto: AddMemory writes memories_1024 too
    MaxRequests,  \* bound: requests of a session
    MaxTicks      \* bound: ticks of the scheduler, one an hour

\* As migration 000001 lets them be.
ASSUME RowsAssumption ==
    /\ DOMAIN Rows0 \subseteq Memory
    /\ Rows0 \in [DOMAIN Rows0 -> Row]

ASSUME TrustBoundsAssumption == MaxRequests \in Nat /\ MaxTicks \in Nat

VARIABLES
    db,           \* the tables
    request,      \* what the request loop is doing, and what it has read
    asked,        \* requests taken from stdin
    decay,        \* the scheduler: what it is doing, and what it has read
    ticks,        \* ticks it has taken
    shutdown      \* the signal handler

trustVars == <<db, request, asked, decay, ticks, shutdown>>

FadingBelow == 6  \* fadingThreshold

Idle    == [op |-> "idle"]
Waiting == [op |-> "wait"]

\* A process that starts on the tables earlier sessions have left.
TrustInit ==
    /\ db = [memories |-> Rows0, supersedes |-> {}, adjustments |-> {}]
    /\ request = Idle
    /\ asked = 0
    /\ decay = Waiting
    /\ ticks = 0
    /\ shutdown = "running"

-----------------------------------------------------------------------------
(* The request loop.                                                       *)

Alive == shutdown # "exited"

\* The loop takes the next request and runs it as far as its first write.
Take(next) ==
    /\ Alive
    /\ request = Idle
    /\ asked < MaxRequests
    /\ asked' = asked + 1
    /\ request' = next
    /\ UNCHANGED <<db, decay, ticks, shutdown>>

\* The request being served executes a statement, or answers.
Serve(op, after, next) ==
    /\ Alive
    /\ request.op = op
    /\ db' = after
    /\ request' = next
    /\ UNCHANGED <<asked, decay, ticks, shutdown>>

\* The request is one statement; in reply the client has what was computed.
Execute(after) ==
    /\ Alive
    /\ request = Idle
    /\ asked < MaxRequests
    /\ asked' = asked + 1
    /\ db' = after
    /\ UNCHANGED <<request, decay, ticks, shutdown>>

Reply(kind, with) == [op |-> "reply", kind |-> kind, with |-> with]

\* An error is the answer: parameters are missing, or the first statement fails.
Refused == Take(Idle)

\* Deltas of the four signals: agent_used, agent_ignored, user_confirmed,
\* user_corrected.
Plus  == {1, 2}
Minus == {1, 2}
Raised(s, d)  == IF s + d > Top THEN Top ELSE s + d
Lowered(s, d) == IF s < d THEN 0 ELSE s - d

-----------------------------------------------------------------------------
(* The writes of the memory system, each up to its next statement.         *)

\* AdjustTrust reads the score, archived or not, and computes the new one.
AdjustTrust(m) ==
    /\ GetMemory(db, m, TRUE)
    /\ LET s == db.memories[m].score IN
       \E new \in {Raised(s, d) : d \in Plus} \cup {Lowered(s, d) : d \in Minus} :
          Take([op |-> "adjust", m |-> m, old |-> s, new |-> new,
                archived |-> db.memories[m].state = "archived"])

AdjustTrustUpdate ==
    \/ Serve("adjust", UpdateTrustFields(db, request.m, request.new, request.archived),
             [request EXCEPT !.op = "log"])
    \/ Serve("adjust", db, Idle)

AdjustTrustLog ==
    \/ Serve("log", LogTrustAdjustment(db, request.m, request.old, request.new),
             Reply("adjusted", <<request.old, request.new>>))
    \/ Serve("log", db, Idle)

\* ChallengeMemory reads the memory, then asks the LLM, which takes seconds.
ChallengeMemory(m) ==
    /\ GetMemory(db, m, TRUE)
    /\ Take([op |-> "challenge", m |-> m, old |-> db.memories[m].score,
             archived |-> db.memories[m].state = "archived"])

\* confidence_change is clamped to [-0.3, 0.3]; a status the LLM makes up is a rejection.
ProcessChallenge == {[accepted |-> a, change |-> c] : a \in BOOLEAN, c \in {1, 6}}

\* Only an accepted challenge writes, and the answer does not depend on the write.
ChallengeAnswer ==
    \/ \E event \in ProcessChallenge :
          /\ event.accepted
          /\ Serve("challenge",
                   UpdateTrustFields(db, request.m, Lowered(request.old, event.change),
                                     request.archived),
                   Idle)
    \/ Serve("challenge", db, Idle)

\* The client's trustBoost is not checked: nothing keeps it from being negative.
Boosts == {[up |-> 2, down |-> 0], [up |-> 0, down |-> 12]}

ElevateMemory(m, boost) ==
    /\ GetMemory(db, m, FALSE)
    /\ Take([op |-> "elevate", m |-> m, old |-> db.memories[m].score, boost |-> boost])

ElevateInsert ==
    \/ Serve("elevate", AddMemory1024(db, request.m), [request EXCEPT !.op = "boost"])
    \/ Serve("elevate", db, Idle)

\* A score below 0 breaks the CHECK, after the row of memories_1024 is in.
ElevateTrust ==
    LET up == Raised(request.old, request.boost.up) IN
    \/ /\ request.op = "boost"
       /\ request.boost.down <= up
       /\ Serve("boost", UpdateTrustFields(db, request.m, up - request.boost.down, FALSE), Idle)
    \/ Serve("boost", db, Idle)

\* One statement, whether or not there is such a row.
DeleteMemory(m) == Execute(SoftDelete(db, m))

\* The audit event that follows goes to another table, and may fail unnoticed.
AdjustDecayRate(m) == Execute(UpdateDecayRate(db, m))

\* The embedder comes first, then the row, and in auto mode the row beside it.
AddMemory(t) ==
    \E m \in Memory :
       /\ \A n \in DOMAIN db.memories : n < m
       /\ Take([op |-> "add", m |-> m, topic |-> t])

AddInsert ==
    \/ Serve("add", StoreMemory(db, request.m, request.topic),
             IF AutoMode THEN [op |-> "sidecar", m |-> request.m] ELSE Idle)
    \/ Serve("add", db, Idle)

\* Best effort: whatever happens here the id is returned.
AddSidecar ==
    \/ Serve("sidecar", AddMemory1024(db, request.m), Idle)
    \/ Serve("sidecar", db, Idle)

-----------------------------------------------------------------------------
(* Consolidate: over the list it has read, in the order of two nested      *)
(* loops, each pair of similar memories not seen before is merged.         *)

Pairs(list)    == {p \in (DOMAIN list) \X (DOMAIN list) : p[1] < p[2]}
Earlier(p, q)  == p[1] < q[1] \/ (p[1] = q[1] /\ p[2] < q[2])
Mergeable(list, seen, p) ==
    /\ list[p[1]].m \notin seen
    /\ list[p[2]].m \notin seen
    /\ list[p[1]].topic = list[p[2]].topic

\* The next pair to merge after at, or the end of the request.
Continue(list, seen, at) ==
    LET left == {p \in Pairs(list) : Earlier(at, p) /\ Mergeable(list, seen, p)} IN
    IF left = {} THEN Idle
    ELSE [op |-> "merge", list |-> list, seen |-> seen,
          at |-> CHOOSE p \in left : \A q \in left \ {p} : Earlier(p, q)]

Consolidate(force) ==
    LET ids  == ListMemories(db)
        list == [i \in DOMAIN ids |-> [m     |-> ids[i],
                                       score |-> db.memories[ids[i]].score,
                                       topic |-> db.memories[ids[i]].topic]]
    IN  Take(IF force \/ Len(list) >= 2 THEN Continue(list, {}, <<0, 0>>) ELSE Idle)

\* Of a pair the one whose score, as listed, is lower gives way; the second in a tie.
LowerOf(list, p) ==
    IF list[p[2]].score > list[p[1]].score THEN list[p[1]].m ELSE list[p[2]].m
HigherOf(list, p) ==
    IF list[p[2]].score > list[p[1]].score THEN list[p[2]].m ELSE list[p[1]].m

\* A slip: the relationship is written even when the first statement fails.
MergeBoth ==
    /\ request.op = "merge"
    /\ LET lower == LowerOf(request.list, request.at) IN
       \/ Serve("merge", UpdateTrustFields(db, lower, 0, TRUE), [request EXCEPT !.op = "relate"])
       \/ Serve("merge", db, [request EXCEPT !.op = "relate"])

MergeArchive ==
    /\ request.op = "merge"
    /\ LET lower == LowerOf(request.list, request.at) IN
       \/ Serve("merge", UpdateTrustFields(db, lower, 0, TRUE), [request EXCEPT !.op = "relate"])
       \/ Serve("merge", db, Continue(request.list, request.seen, request.at))

\* After both statements the second of the pair is marked, whichever was archived.
MergeRelate ==
    /\ request.op = "relate"
    /\ \/ Serve("relate",
                CreateRelationship(db, HigherOf(request.list, request.at),
                                     LowerOf(request.list, request.at)),
                Continue(request.list,
                         request.seen \cup {request.list[request.at[2]].m}, request.at))
       \/ Serve("relate", db, Continue(request.list, request.seen, request.at))

-----------------------------------------------------------------------------
(* Its reads.                                                              *)

\* An archived memory has a score too.
GetTrustScore(m) ==
    [score    |-> db.memories[m].score,
     archived |-> db.memories[m].state = "archived",
     rate     |-> db.memories[m].rate]

\* The store looks at no filter: "archived" memories are the active ones.
ListArchived == ListMemories(db)

filterByFading(list) ==
    SelectSeq(list, LAMBDA m : db.memories[m].score < FadingBelow)

\* ListFadingMemories is not implemented in the store, so the list of all is filtered;
\* the archived ones are counted as above.
GetDecayStatus ==
    [fading |-> Len(filterByFading(ListMemories(db))), archived |-> Len(ListMemories(db))]

\* The memories of one source type, which is not a column of the model: any of them.
ListMemoriesBySourceType(ofType) == SelectSeq(ListMemories(db), LAMBDA m : m \in ofType)

\* Stats: one count for each of four tables, of which this is the one of this module.
GetStatus == CountMemories(db)

\* The edges of a memory; the ones there are say SUPERSEDES, none CONTRADICTS.
GetRelationships(m) == {e \in db.supersedes : m \in {e[1], e[2]}}

\* The relationships are read twice, and nobody writes them in between.
GetRelationshipSummary(m) == [total |-> Cardinality(GetRelationships(m)), related |-> GetRelationships(m)]

\* Any two that follow each other in a text search may contradict each other: here
\* the search finds the memories about one topic, in the order of the list.
findImplicitContradictions(t, limit) ==
    LET found == SelectSeq(ListMemories(db), LAMBDA m : db.memories[m].topic = t)
    IN  {{found[i], found[i + 1]} : i \in {j \in 1..limit : j < Len(found)}}

\* No relationship says CONTRADICTS, so what the search finds is all there is.
FindContradictions(t, limit) == findImplicitContradictions(t, limit)

\* Reads both memories, archived or not, and asks the LLM; nothing is written.
ResolveContradiction(m, n) == GetMemory(db, m, TRUE) /\ GetMemory(db, n, TRUE)

\* Its events are the CONTRADICTS relationships.
GetDialecticHistory(m) == {}

-----------------------------------------------------------------------------
(* The handlers: the request is refused, or fails, or is done.             *)

handleMemoryAdd == Refused \/ \E t \in Topic : AddMemory(t)

handleMemoryDelete == Refused \/ \E m \in Memory : DeleteMemory(m)

handleMemoryAdjustTrust == Refused \/ \E m \in Memory : AdjustTrust(m)

handleMemoryAdjustDecayRate == Refused \/ \E m \in Memory : AdjustDecayRate(m)

handleMemoryTriggerConsolidation == Refused \/ \E force \in BOOLEAN : Consolidate(force)

handleMemoryChallengeMemory == Refused \/ \E m \in Memory : ChallengeMemory(m)

handleMemoryElevateMemoryTo1024 ==
    Refused \/ \E m \in Memory, boost \in Boosts : ElevateMemory(m, boost)

handleMemoryGet ==
    Refused \/ \E m \in Memory : GetMemory(db, m, FALSE) /\ Take(Reply("memory", m))

handleMemoryCount == Refused \/ Take(Reply("count", CountMemories(db)))

handleMemoryGetTrustScore ==
    Refused \/ \E m \in Memory : GetMemory(db, m, TRUE) /\ Take(Reply("trust", GetTrustScore(m)))

handleMemoryListArchived == Refused \/ Take(Reply("archived", ListArchived))

handleMemoryGetDecayStatus == Refused \/ Take(Reply("decay", GetDecayStatus))

\* What the store does not implement is an error.
handleMemoryListFadingMemories == Refused

handleMemoryQueryBySourceType ==
    Refused \/ \E ofType \in SUBSET Memory :
        Take(Reply("by type", ListMemoriesBySourceType(ofType)))

handleMemoryGetStatus == Refused \/ Take(Reply("status", GetStatus))

handleMemoryGetRelationshipSummary ==
    Refused \/ \E m \in Memory : Take(Reply("summary", GetRelationshipSummary(m)))

handleMemoryFindContradictions ==
    Refused \/ \E t \in Topic : Take(Reply("contradictions", FindContradictions(t, 2)))

handleMemoryResolveContradiction ==
    Refused \/ \E m, n \in Memory : ResolveContradiction(m, n) /\ Take(Reply("resolved", {m, n}))

handleMemoryGetDialecticHistory ==
    Refused \/ \E m \in Memory : Take(Reply("history", GetDialecticHistory(m)))

\* writeResponseTo: the answer is on stdout, and the next line is read.
WriteResponse == Serve("reply", db, Idle)

-----------------------------------------------------------------------------
(* The decay scheduler.                                                    *)

Schedule(after, next) ==
    /\ Alive
    /\ db' = after
    /\ decay' = next
    /\ UNCHANGED <<request, asked, shutdown>>

\* The memories of the tick still to be visited.
Visit(queue) == IF queue = <<>> THEN Waiting ELSE [op |-> "read", queue |-> queue]

\* The ticker fires: the active memories are listed, or the statement fails.
Tick ==
    /\ decay = Waiting
    /\ ticks < MaxTicks
    /\ ticks' = ticks + 1
    /\ Schedule(db, Visit(ListMemories(db)))

TickFails ==
    /\ decay = Waiting
    /\ ticks < MaxTicks
    /\ ticks' = ticks + 1
    /\ Schedule(db, Waiting)

\* exponentialDecay after no time to speak of, one half-life, or very long.
Decayed(s) == {s, s \div 2, 0}

\* ApplyDecay reads one memory; it passes over one that is archived by now.
DecayRead ==
    /\ decay.op = "read"
    /\ LET m == Head(decay.queue) IN
       \/ /\ m \in Active(db)
          /\ \E new \in Decayed(db.memories[m].score) :
                Schedule(db, [op |-> "write", queue |-> decay.queue, new |-> new])
       \/ Schedule(db, Visit(Tail(decay.queue)))
    /\ UNCHANGED ticks

\* Its write: archived below the threshold, else the new score.
DecayWrite ==
    /\ decay.op = "write"
    /\ \/ Schedule(UpdateTrustFields(db, Head(decay.queue), decay.new, decay.new < ArchiveBelow),
                   Visit(Tail(decay.queue)))
       \/ Schedule(db, Visit(Tail(decay.queue)))
    /\ UNCHANGED ticks

\* A slip: a stop that comes during a tick is lost, and the goroutine waits on.
ReturnsBeforeTicks ==
    /\ decay = Waiting
    /\ shutdown = "closing"
    /\ ticks = 0
    /\ Schedule(db, [op |-> "returned"])
    /\ UNCHANGED ticks

\* run returns when it finds stopCh closed, which it looks at between ticks.
SchedulerReturns ==
    /\ decay = Waiting
    /\ shutdown = "closing"
    /\ Schedule(db, [op |-> "returned"])
    /\ UNCHANGED ticks

-----------------------------------------------------------------------------
(* The signal handler: cancel, then Close, which stops the scheduler,      *)
(* waits for its tick to end, closes the pool, and the process exits.      *)

Signal ==
    /\ shutdown = "running"
    /\ shutdown' = "closing"
    /\ UNCHANGED <<db, request, asked, decay, ticks>>

Exit ==
    /\ shutdown = "closing"
    /\ decay.op = "returned"
    /\ shutdown' = "exited"
    /\ UNCHANGED <<db, request, asked, decay, ticks>>

-----------------------------------------------------------------------------
Request ==
    \/ handleMemoryAdd
    \/ handleMemoryDelete
    \/ handleMemoryAdjustTrust
    \/ handleMemoryAdjustDecayRate
    \/ handleMemoryTriggerConsolidation
    \/ handleMemoryChallengeMemory
    \/ handleMemoryElevateMemoryTo1024
    \/ handleMemoryGet
    \/ handleMemoryCount
    \/ handleMemoryGetTrustScore
    \/ handleMemoryListArchived
    \/ handleMemoryGetDecayStatus
    \/ handleMemoryListFadingMemories
    \/ handleMemoryQueryBySourceType
    \/ handleMemoryGetStatus
    \/ handleMemoryGetRelationshipSummary
    \/ handleMemoryFindContradictions
    \/ handleMemoryResolveContradiction
    \/ handleMemoryGetDialecticHistory

Statement ==
    \/ AdjustTrustUpdate
    \/ AdjustTrustLog
    \/ ChallengeAnswer
    \/ ElevateInsert
    \/ ElevateTrust
    \/ AddInsert
    \/ AddSidecar
    \/ MergeArchive
    \/ MergeRelate
    \/ WriteResponse

Scheduler ==
    \/ Tick
    \/ TickFails
    \/ DecayRead
    \/ DecayWrite
    \/ SchedulerReturns

TrustNext == Request \/ Statement \/ Scheduler \/ Signal \/ Exit

\* The scheduler's statements return, and select cannot pass over a closed
\* stopCh for ever: the ticker fires once an hour.  The handler goes on by itself.
TrustFairness ==
    /\ WF_trustVars(DecayRead)
    /\ WF_trustVars(DecayWrite)
    /\ WF_trustVars(SchedulerReturns)
    /\ WF_trustVars(Exit)

TrustSpec == TrustInit /\ [][TrustNext]_trustVars /\ TrustFairness

-----------------------------------------------------------------------------
TrustTypeOK ==
    /\ DOMAIN db.memories \subseteq Memory
    /\ \A m \in DOMAIN db.memories : db.memories[m] \in Row
    /\ db.supersedes \subseteq (DOMAIN db.memories) \X (DOMAIN db.memories)
    /\ request.op \in {"idle", "adjust", "log", "challenge", "elevate", "boost",
                       "add", "sidecar", "merge", "relate", "reply"}
    /\ asked \in 0..MaxRequests
    /\ decay.op \in {"wait", "read", "write", "returned"}
    /\ ticks \in 0..MaxTicks
    /\ shutdown \in {"running", "closing", "exited"}

\* A memory that has been archived, by a deletion, a merge or its decay, stays
\* archived: the writers that read it while it was active, and have its score
\* in hand, do not bring it back (audit_trust.go:158, trust/engine.go:78).
ArchivedStays ==
    [][\A m \in DOMAIN db.memories :
          m \notin Active(db) => m \in DOMAIN db'.memories /\ m \notin Active(db')]_trustVars

\* Of the two statements of a merge either may fail, but no memory is recorded
\* as superseded while it is still served (consolidate.go:118).
SupersededIsArchived ==
    \A e \in db.supersedes : e[2] \notin Active(db)

\* Once a signal has come the process ends, however far a tick has got
\* (scheduler.go:42: Stop waits for the goroutine).
ShutdownCompletes == (shutdown = "closing") ~> (shutdown = "exited")
=============================================================================
