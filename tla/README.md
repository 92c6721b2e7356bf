# Verification of the Go core of neuralgentics

TLA+ specifications of the concurrent and stateful parts of neuralgentics, the TLC
configurations that check them on small instances, and TLAPS proofs of the most
important properties for every value of the parameters. Paths below are relative to
`src/packages` of the repository.

## 1. The system

neuralgentics is a backend process (`backend-go/cmd/backend`) that an editor plugin
starts and speaks JSON-RPC with over stdin and stdout. It puts three Go packages
together: a **broker** of MCP servers, an **orchestrator** of agent tasks, and a
**memory** system over PostgreSQL. The TypeScript overlay, the Python web service and
the embedding sidecar are separate programs.

The backend reads a line, answers it and reads the next (`main.go:902-917`), so its
handlers do not overlap. What overlaps with them are goroutines: the readers and watchers
of MCP servers, the flush loop of the audit writer, the workers of the task runner, the
decay scheduler, background index jobs, the watcher's timers, and the signal handler.

| component | state | operations | what is hard | what makes it correct |
|---|---|---|---|---|
| MCP stdio proxy (`broker/proxy/proxy.go`) | pending table, id counter, running flag, reader channel, write lock | StartReader, Stop, Initialize, Call, ListTools, sendRPC, readLoop | lookups, sends and closes under different locks; timeouts against late answers; one object for all servers | an answer reaches the call that asked; no entry leaks; a call returns |
| Server lifecycle (`broker.go`, `launcher/`, `registry/`) | registry entries, HTTP clients, process handles | Register, Start, Reload, Activate with fallback, Deregister | crashes between any two steps, partial failure, stale watchers | what an entry shows is what was launched for it; Stop and Deregister leave nothing running; crashes are noticed |
| Audit writer (`broker/audit/audit.go`) | buffer, closed flag, file, database | Write, Flush, Close, flush loop | batches written after the unlock, Close against Flush and the loop, failing sinks | a record is in each sink once, or lost to an error, or passed over once Close has cleared the sink |
| Task graph and runner (`orchestrator/task_runner.go`) | depths and stack of the search; channels, workers, results | GetParallelGroups, TopologicalSort, Dispatch | order of tasks, pool and channels, failures, cancellation | dependencies first, one result each, it returns |
| File ownership (`task_runner.go`) | locks by path, task statuses | AcquireLock, ReleaseLock, UpdateLockStatus, GetOwner | takeover of a lock in a terminal state, late reports | one owner of a file |
| Task cycle (`orchestrator.go`, `protocol.go`, `routing.go`, `context_builder.go`) | step, completed and waived steps, violations by task | HandleTask, CompleteTaskCycle, Advance, ApplyWaiver, CompleteProtocol | steps repeated, out of order, errors ignored, three levels of strictness | no task gets ahead unseen |
| Broker requests (`access/`, `catalog/`, `profile/`, `intent/`) | roles, entries, tools, archive | Call, Grant, Revoke, catalogs, ExportProfile, ImportProfile | empty list against no list, what an archive loses | who may call; what an import did |
| Skills (`catalog/skills.go`) | none: files read afresh | BuildSkills | the order of modifiers, unreadable files, a name twice | a role is offered what its tags say |
| Trust and decay (`memory/trust`, `memory/decay`, `memory/dialectic`) | scores, archive flags, relationships | signals, challenges, elevation, deletion, consolidation, ticks | read-modify-write by two goroutines, no transactions | what is archived stays so; tables agree |
| Indexer and watcher (`memory/index`) | rows of chunks, hashes, timers, indexing flag | Index, background jobs, timers, Stop, GetFileContents | timers against runs and Stop, two reads of one file | what is passed over as unchanged is indexed |
| Thought chains (`memory/thought`) | chains, thoughts, their memories | Start, Add, Revise, Branch, Pause, Get | numbers repeat | the history is readable |
| Tiered summaries (`memory/tiered`, `memory/llm`) | cached summaries | GetTier0/1Summary, TriggerExtraction, precompression | a slow answer against a lifetime | a summary is not too old |
| Search (`memory/search`, `store/rrf.go`) | none | Query, SearchRRF | ties, one search failing, cuts | fusion keeps the better |
| Knowledge graph (`memory/kg`) | entities, relationships | inference chain, closure, neighbourhood | cycles, depth, failed reads | a walk answers what there is |
| Embedding migration (`main.go:2740`) | vectors, labels, legacy column | memory.migrateEmbeddings | crash and repeat between statements | the original vector is kept |
| Peers and profiles (`peer.*`, `user.*`, `agent.*`, `audit.*` of `main.go`) | peers, shares, profiles, tools | list, share, switch, request | constraints decide | tables stay consistent |
| Embedding client (`memory/embed`) | connection | Embed, reconnect | reconnects that overlap | a healthy connection is kept |

`PROJECT.json` lists every component with its sources and status, and under
`hazards` what is hard to test at its line.

## 2. Modules

| module | models | kind |
|---|---|---|
| `McpProxy` | `MCPProxy`: each action is the code between two lock or channel operations | detailed |
| `BrokerLifecycle` | one request of the broker at a time, with the processes, watchers and readers beside it | detailed |
| `AuditLog`, `AuditWriter` | what one sink of the audit writer promises; the writer with its goroutines and two sinks | abstract; detailed, implements it twice |
| `PlanGraph`, `DependencyGraph` | depth, cycles, dangling dependencies as definitions; the depth-first search and Kahn's algorithm turn by turn | reference; detailed, checked against it |
| `PlanExecution`, `TaskRunner` | what running a plan promises; `Dispatch` and `dispatchGroup` | abstract; detailed, implements it |
| `MemoryTables` | the statements of the store on memories, memories_1024, memory_relationships, trust_adjustments | operators |
| `TrustAndDecay` | every writer of a memory's score and flag, statement by statement, the decay goroutine, the shutdown | detailed |
| `Chunker`, `ProjectIndex` | how a file is cut and put together again; runs, jobs, timers, tracker, rows | operators; detailed |
| `ThoughtChains` | the thought handlers on their two tables | one action per request |
| `RankFusion` | reciprocal rank fusion of the rankings of two searches or several columns | operators, one action per query |
| `KnowledgeGraph` | three breadth-first walks, one read and one row at a time, with reads of relationships and of neighbours that fail | detailed, checked against sets of paths |
| `TaskCycle` | routing, the protocol machine in three levels, packages and wrap-ups, the two handlers of a task | one action per request |
| `TieredSummaries` | cache, tiers, LLM with attempts and waits, the clock | detailed |
| `EmbeddingMigration` | the migration, statement by statement, with crashes and restarts | detailed |
| `SkillScope` | scope file, front matter, modifiers, what a role is offered | operators, one action per request |
| `ToolBroker` | access, catalogs, intents, calls, profiles | one action per request |
| `PeerServices` | peers, shares, profiles, tools, audit events, with the constraints of the tables | one action per request |
| `FileOwnership` | the registry of owned files and the status machine of fine-grained tasks | one action per method |
| `Backend` | the process: a session of requests of one of the twelve areas | composition |
| `*Proofs` | theorems | proofs |
| `MC*` | model values for TLC | instances |

### McpProxy

`pending` maps an id to the call that owns the channel; `buf` is the one slot of that
channel, `closed` the calls whose channel Stop closed, `got` what the caller received.
A reader goes `scan`, `gate` (the check of `readerCh`), `lookup` (under the lock) and
`deliver` (the send after the unlock); a call goes from `idle` through `registered`,
`writing` and `waiting` to `done`. `writer` is the holder of `writeMu`. A send on, or a close
of, a closed channel sets `panicked`, after which nothing happens. The servers are
external: they answer requests in any order, end, or (those in `MayStall`) stop
reading their stdin.

### BrokerLifecycle

`entry` is the registry, `life`, `launched` and `signalled` are the processes as the
operating system has them, `watch` the goroutine `launcher.Start` leaves for each. `pc`,
`cur`, `then`, `todo` and `old` are the request's place and locals. The proxy is seen as the
readers attached to it, its running flag, and its `readerDone`: a reader that has left its
loop (`ending`) closes whatever channel the field then holds (`CloseDone`), and `doneClosed`
says whether that one has been closed. A second close is a panic of the back end
(`panicked`), after which nothing happens. The proxy's other panic, a send on a channel that
Stop has closed, needs a call in flight beside the Stop, which one request at a time does not
have.

### AuditWriter

`accepted` remembers the calls of Write that passed the `closed` check; `batch[x]` and
`at[x]` are the records goroutine x took and how many it has written. The file takes
records one at a time, the table a transaction. `handle` is what the fields `jsonlFile` and
`pgDB` hold: Close closes each and then clears it, in two steps, while `writeAll` tests the
field, without the mutex, and uses it in a later step. A field that is open gives the record
to the sink; one closed but not cleared gives an error (`lost`); a nil one is passed over
and no error says so (`skipped`); a `pgDB` cleared between the test and `BeginTx` is a
panic (`panicked`). `AuditLog` is instantiated once per sink, with the sets of the sequences as the
mapping.

### PlanGraph, DependencyGraph, TaskRunner

`PlanGraph!IsDepth` says what a depth is; `DependencyGraph` runs the two algorithms
with the order of tasks, of dependencies and of the Go map as choices and compares their
results with that definition and with each other. `TaskRunner` uses the definition for
its groups (that is what `DependencyGraph` justifies) and models the goroutines: `jobs` and
`results`, which hold no more than the group is large (`HasRoom`), the workers, the
collecting loop, and the branch for a group of one. The
refinement mapping to `PlanExecution` is `active` = the tasks the workers or Dispatch
itself hold, `ended` = the tasks in `results`, `collected` or `all`.

### TrustAndDecay, MemoryTables

`db` is a record of the tables. `request` is the statement the request loop comes to
next, with what the handler has read before it (`old`, `archived`, the list of a
consolidation): that is what can be stale. `decay` is the same for the scheduler, with the
memories of the tick still to be visited. Either outcome of a statement is a step.
`UpdateTrustFields` is the store's: with the flag set it stores no score, without it leaves
the flag alone, and that is why a late signal cannot bring a memory back. Scores are in
twentieths; the decay formula is one of no time, a half-life, or very long.

### ProjectIndex, Chunker

A file may have any of the texts `Text[p]`, and gets another of them, or one it has had
before, at any step; `version[p]` is the place of the one on disk. A hash is that place: it
is equal for equal texts, whenever they were written. A text is a number of lines, with the
places of its declarations. `run[w]` is what a worker (the request loop, a
job, a timer) is doing and has read. `disturbed` is history: a file whose rows two
workers, or a failed statement, may have left in part, until one worker has deleted and
inserted them alone. `torn` is history too: a file whose last worker met one text when it
hashed it and another when it read it, or a timer that deleted the rows and then could not
read. Put the first text back, and the tracked hash says that the file is unchanged
(section 3).

### TaskCycle

`states` is the map of `ProtocolMachine`; `Advance` is written as a function of a state,
so that a handler that advances several times is one action. Violations are pairs
of steps, waivers steps. `memories` holds packages and wrap-ups, known by their places.

### TieredSummaries, EmbeddingMigration, FileOwnership

`now` is a clock the LLM's attempts, waits and the lifetimes share; `answer.age` is how long
ago the memories of the served summary were read. In the migration a vector is named by
the model that made it, and `original` remembers it when a backup first comes by the row.
In `FileOwnership` `taskStatus` is the task's own and the lock has a copy, which is what
can be late; `told` are the tasks `AcquireLock` has said true to.

### Backend

`Backend` is the conjunction of the areas' initial states, and a next-state relation whose
every disjunct is one area's, with the others unchanged. `session` is the area of
the session. Two areas share no table column and no object, and requests are served one
at a time, so requests of two areas commute; a session of one area, with the goroutines,
statements, failures and restarts of its module, stands for all their interleavings.
Where an area does depend on another, its module has the other's steps as it sees
them (the decay that archives rows under a migration or a summary, the orchestrator's
memories). Configurations that only one area looks at are fixed in the sessions of the
others.

## 3. What TLC checks

| run | question | bounds, and why they are enough |
|---|---|---|
| `proxy_safety` | Does an answer ever reach the wrong call? Does the table leak? | two servers, two calls (one a handshake), two ids, one Stop: every pair of goroutines that share a lock or a channel, with a Stop in between |
| `proxy_live` | Does a call return, does a reader stay stuck? | one server that may stall, two calls, one Stop |
| `proxy_shared` (violated) | Is the shared proxy left usable by the other servers? | two servers, no Stop |
| `lifecycle` | Do entries and processes agree, do Stop and Deregister drop nothing that runs, are crashes noticed, does a request return? | one name, two processes (one and its replacement), one stdio and one HTTP configuration, one transport list with both |
| `lifecycle_route` (violated) | Does Call use the transport the entry has? | one name, one process |
| `lifecycle_watcher` (violated) | Does a watcher clear only what has exited? | one name, two processes |
| `audit` | Does each sink keep AuditLog's promise; order; does Close return? | two records, the loop, two callers of Flush, two of Close, both sinks may fail: each pair of writers, two batches held at once, a Flush at any step of a Close |
| `graph` | Are the depths right, are exactly the cyclic plans refused, do both algorithms agree? | all 4096 plans of three tasks that may name one missing task, in every order: self-loops, cycles of two and three, diamonds with a missing corner |
| `runner` | Does Dispatch run the plan, return, and have one result for each task? | the same plans on two workers: groups of one, as large as the pool and larger; tasks fail and the context is cancelled at any step |
| `backend` | Does each area keep what it promises of its tables, caches and answers? | see below |
| `backend_live` | Does the process end after a signal; does every background job? | the trust and index sessions, one request beside one tick; one job beside one run, on a file of one text, which is enough for who ends and who reports |
| `backend_import` (violated) | Does an import count what it applied? | two servers, three requests |

The sessions of `backend`, with the properties they are for:

| area | property | bounds |
|---|---|---|
| trust | `ArchivedStays`, `SupersededIsArchived` | two rows about one topic and a third to be added, one near the archive threshold; two requests beside one tick: each pair of read-and-write |
| index | `UnchangedIsIndexed` | a file with two texts (a declaration and a line fewer), written, removed and put back at any step, the loop, a job and a timer, a failure and a restart |
| thought | `HistoryReadable` | one chain, four thoughts: a revision of a revision, a branch of a branch, both of one number |
| search | `FusionRespectsDominance` | every pair of rankings of three items, limits 0 to 2, either search failing, the constant of the code (60); scores are whole numbers because `Scale` is a multiple of each k + rank |
| graph | `WalksAreExact` | every graph of at most three relationships of two types on three entities, depths 0 and 2, every order of the rows of a read, a read of relationships or of a neighbour that fails |
| cycle | `NoSilentSkip` | two tasks, a type with a rule and one without, the three strictness levels, three completions or waivers |
| tier | `SummaryInTime` | two tiers with lifetimes 1 and 2, two attempts of one tick and a wait of one, a clock to 6, past the bound of either tier (4 and 5) |
| migrate | `OriginalKept` | two rows, two models, two migrations, with a crash or a failure at any statement |
| skills | `OfferedByScope` | lists of up to two modifiers of two tags, a local and two external skills, each file readable or not, a scope file whose only role has no value |
| broker, peers | `BackendTypeOK` | two servers, two peers, three requests |
| files | `OneOwner` | two tasks, two files, every plan |

`BackendTypeOK` is the conjunction of the areas' type invariants. The rows of the areas
differ only in ways the properties see; a third task, tag or row meets the same code.

No run checks for deadlock, because in each the system really stops: the back end has
panicked (in the proxy, the lifecycle and the audit writer), every call has returned and no id is
left, Close is over, Dispatch has returned, the session's requests are used up or the process has
exited.

The bounds in the modules are `MaxId`, `MaxStops`, `MaxProcs`, `Records`, and in the areas
`Sessions`, `MaxRequests`, `MaxTicks`, `MaxIndexRequests`, `MaxRestarts`, `MaxFailures`,
`MaxThoughts`, `MaxLinks`, `MaxReadFailures`, `MaxMemories`, `MaxCycles`, `MaxKept`, `MaxNow`,
`MaxRows`, `MaxMigrations`, `MaxBrokerRequests`, `MaxPeerRequests`. They stop new work from
arriving and never cut a behaviour in progress; `MaxLines` and `OverlapLines` are the
chunker's constants, made small.

Every property of a passing run has a mutant in `PROJECT.json`: a definition of the
module that has a plausible bug (a slot that is missing from a channel, a machine that moves
before it looks whether it may, a backup that is made again) and under which TLC finds
the property violated. The mutated definitions stand before the one they replace and are
not used.

### Fairness

- `McpProxy`: a goroutine that can run runs, and an armed timer fires. Nothing is
  assumed of servers, of Stop or of new calls. `CallReturns` excepts a stalled server:
  stdin is written without a deadline, so nothing in the code makes that write end.
- `BrokerLifecycle`: the request in progress and the watchers run. No process has to
  exit: a handshake or a stop that gets no answer has a timeout, which is why the step
  is enabled without one.
- `AuditWriter`: weak fairness for the goroutines in `writeAll` and `Close`, and for the
  ticker. The loop's exit is strongly fair: its `select` chooses at random between the
  ticker and the closed channel, so an exit that stays possible is taken in the end.
- `DependencyGraph`: the algorithm goes on. `TaskRunner`: Dispatch and each worker go on;
  a task ends, since Dispatch waits for it without a deadline. Nobody has to cancel.
- `TrustAndDecay`: the scheduler's statements return, it takes the closed stop channel (a
  tick comes once an hour, so `select` cannot prefer it for ever), and the signal handler goes
  on. Nothing is assumed of requests: the process ends without the loop.
- `ProjectIndex`: the goroutine of a run goes on: its reads of files and its statements end.
  Timers, watcher and clients may do what they like.

### Where the code and its comments differ

1. `proxy_shared`: `broker.go:288` counts on the shared proxy being left to the other
   servers. The end of one server's stdout clears `running` for all, and sendRPC then
   refuses every call until some StartReader.
2. `lifecycle_route`: `broker.go:482-483` says that stdio servers are called through the proxy.
   A name that was once activated over HTTP keeps its client when it is activated over stdio,
   and Call prefers it.
3. `lifecycle_watcher`: `launcher.go:162` says that the state is cleared after a process
   exits. The watcher clears whatever the name now has, a running replacement included.
4. `backend_import`: `docs/design/deferred-followups.md:53` says that an import skips what is
   registered, counts what it applied and lists what it skipped. The handler looks after
   the import (`main.go:1743`): what was applied is listed as a conflict, and only what
   could not be registered is counted as applied.

Defects of the code that the models have, and which no property denies; where a property
would fail by one of them, it names the exception:

- *Proxy.* A reader that ends closes whatever channel `readerDone` holds by then
  (`proxy.go:113-116`). Start two stdio servers, let both streams end: the later channel is
  closed twice, and the back end panics, with the request in progress and the registry. A reader
  that has looked a channel up sends on it after the unlock (`proxy.go:164-166`); a Stop in
  between has closed it, which is a panic too. `McpProxy` and, for the first,
  `BrokerLifecycle` have them as `panicked`, which both reach; `CallReturns`, `ReaderNotStuck`,
  `RequestReturns` and `CrashNoticed` except it.
- *Launcher.* A Start or a Register over a running server, and the watcher of
  `lifecycle_watcher`, replace or clear the record of a process that goes on running.
  `StopsWhatItDrops` is of Stop and Deregister only.
- *Audit.* A Flush that Close overtakes finds the fields `jsonlFile` and `pgDB` cleared
  (`audit.go:257`, `:263`), passes the sink over (`:305`, `:310`) and returns nil: its records are
  gone and nobody is told. If `pgDB` is cleared between the test and the use (`:310`, `:340`),
  `BeginTx` of a nil `*sql.DB` panics. The loop is waited for and meets neither, but drops the
  error of its Flush (`:280`), so a loss is not reported either; outside the tests nothing else
  calls Flush. A comment at `:318-320` says that records are encoded separately so that one
  malformed record does not spoil the batch: `writeJSONL` returns at it, and the rest of
  the batch never reaches the file. `RecordSettles` says that a record ends somewhere, stored,
  lost or passed over; not that its loss is reported.
- *Index.* The file is read for its hash and again for its text (`indexer.go:92`, `:106`), and
  the first hash is tracked (`:182`). Text A is hashed, B is written and its rows are
  inserted, the hash of A is tracked; the file is put back to A, and every later run passes it
  over with the rows of B. A timer deletes the rows before it reads the text
  (`watcher.go:193-203`), and if that read fails it leaves the old hash: restore the file, and
  it is passed over with no rows. `UnchangedIsIndexed` excepts these files (`torn`), until
  they are indexed again; the run reaches both.

Smaller things met while reading, modelled as the code has them:

- *Trust.* ListArchived returns active memories, and GetDecayStatus counts them as
  archived; a negative boost of ElevateMemory is not clamped and fails the CHECK after the
  row of memories_1024 is in; Consolidate marks the second memory of a pair as seen
  whichever was archived (`consolidate.go:79`).
- *Index.* GetFileContents never starts an index (`memory.go:622` says it does); rows of
  deleted files stay; overlapping workers leave chunks twice, until the next change;
  Stop leaves armed timers.
- *Thoughts.* A revision marks nothing in what it revises, a branch's parent chain is
  dropped, and no handler looks at a chain's status.
- *Search.* With one search failing the other's ranking is returned uncut; a negative
  limit makes the cut of the handler panic.
- *Task cycle.* InitState replaces a state (`protocol.go:120` says it errs); a second
  CompleteProtocol rewinds with violations in standard mode; CompleteTaskCycle drops its
  error, and takes any stored JSON for a wrap-up. The backend runs in standard mode.
- *Migration.* It embeds with the configured model whatever label is asked for, and rows
  without a vector carry the default label, so a migration to that passes them over.
- *Broker.* Revoking the last role opens a server to all, where a comment says nobody; a
  request without a role sees restricted servers that Call then refuses; a profile keeps
  no HTTP server, no environment and no URL.
- *Skills.* A local skill that is filtered out does not hide an external one of its name;
  a scope of version 0 hides everything from the roles it names.
- *Peers.* GetAuditEvents fails on any row; GetSharedMemories always errs; an event
  without a memory is refused; there is no way back to the default peer.
- *Files.* A task that asks again for its own lock is told true with the old status. No
  code but tests uses the registry.

## 4. What is proved

All proofs are for any sets of servers, calls, records, actors, tasks, files, memories,
entities, skills and models, any plan, and any values of the bounds. What they assume of
the constants are the `ASSUME`s of the modules: constants have their types, `None` is none
of the things it stands beside, there is a worker, the sets that something counts or
orders are finite (the tasks of a plan and the ones outside it, the memories' ids, the
entities), lifetimes and timeouts are numbers, and `Scale` is a multiple of each k + rank,
which makes a sum of fractions a sum of numbers. The bounds on what sessions do are
natural numbers, and no proof uses them but to say that what is counted stays within them.

Three kinds of statement are proved of a component: the theorem `...Inductive` (or `IInv`
inside a proof) that an invariant is inductive, the theorems that it gives the properties
the runs check, and, where there is an abstract specification, that each step is a step of
it or a stutter. Every invariant below was checked by TLC, or its consequence was, before
it was proved. The modules:

| module | of | properties proved |
|---|---|---|
| `McpProxyProofs` | McpProxy | `OwnReply`, `PendingExact` |
| `BrokerLifecycleProofs` | BrokerLifecycle | `RunsItsConfig`, `ClientsRegistered`, `StopsWhatItDrops` |
| `AuditWriterProofs` | AuditWriter | `NoDuplicate`, `InOrder`, both refinements of AuditLog |
| `DependencyGraphProofs` | DependencyGraph | `DepthsExact`, `CyclesRefused`, `SortedInOrder`, `SortsWhatIsGrouped` |
| `TaskRunnerProofs` | TaskRunner | `OneResultEach`, `PoolDrained`, the refinement of PlanExecution |
| `MemoryProofs` | trust, migration, summaries, thoughts, search, graph, index | `ArchivedStays`, `SupersededIsArchived`, `OriginalKept`, `SummaryInTime`, `HistoryReadable`, `FusionRespectsDominance`, `WalksAreExact`, `UnchangedIsIndexed` |
| `OrchestrationProofs` | task cycle, file ownership, skills, broker, peers | `NoSilentSkip`, `OneOwner`, `OfferedByScope` |
| `BackendProofs` | Backend | the eleven properties above that its areas promise, and `BackendTypeOK`, which rests on a theorem `...TypeCorrect` of each area |

**McpProxy.** `OwnReply` speaks of what a caller received, and is not inductive: one
has to know where a response is on its way. `IInv` adds that ids are unique among
the calls in progress (`UniqueIds`), that an id in a pipe, in a reader's hand or in a
buffer came from the call that owns it, or from one that has returned (`Provenance`), when
a call has an id (`Located`), and that an entry is removed only by its call or by Stop
(`Registered`).

**BrokerLifecycle.** What an entry shows is right for the servers no request is about; for the
one it is about, each place of the request has its own account of the process the entry
holds (`MatchInv`), which a watcher may take away at any of them. `ProcInv` says that a
process, once launched, keeps its name, and that nobody shows another's; `RequestInv` what
the request knows of its server, among it that the configuration it will restore is a stdio
one; `ClientInv` that a client belongs to a registered name and is gone before the name is.
`StopsWhatItDrops`, an action property, follows from the same invariant.

**AuditWriter.** The invariant says, for each sink, that an accepted record is in the
buffer, in one goroutine's unwritten rest, or settled (`Placed`), and in only one of these
(`Apart`); settled is stored, lost or passed over. `Closing` says that the buffer stays empty
after Close, and `Handles` that the place of a Close says which fields it has cleared, so that a
sink is passed over only when it was closed for good. Each step is one of a few moves of
records between those places, and both the invariant and the refinements follow from the
move. `InOrder` needs one more, `OrderInv`: what one caller gave is in the buffer, in
each batch and in each sink in the order it gave it, and what is in the buffer is later than
what is in a batch.

**DependencyGraph.** The algorithms are followed turn by turn. Of the search: a depth that
is memoised is the depth (`Final`), the stack is a chain of dependencies (`Chained`), and
what it says of a cycle is backed by one (`Verdicts`), so a plan is refused only for a
cycle and a cycle is always refused. Of Kahn's algorithm: the counts are those of the
dependencies not yet taken (`SortExact`); that a plan it cannot finish has a cycle is the
counting argument that a finite set in which everything has a predecessor has one. Depth is a
recursive function; what is proved of it is proved by taking a least counterexample.

**TaskRunner.** The invariant places each task of the group in progress (`Placed`, `Covered`),
says what is settled at each stage of Dispatch (`Stages`) and that the groups before are
exactly what is in `allResults` (`Recorded`). That a task's dependencies have ended is then
the definition of depth; that the pool has room is a counting argument: the tasks in
progress are the image of the busy workers, and the worker about to receive is not busy.

**Trust and decay.** Every statement of the store is shown once to activate no row that was
there (`Kept`), and then each action only has to name its statement. The invariant keeps
what a request holds between two statements (`RequestKept`): a memory to be added is new, a
list to be merged is of rows that are there, and of the pair about to be related the
lower is archived. That a score keeps to the table's range needs more than each
statement's CHECK: it is computed from one that was read earlier, so the score a request or the
timer holds until its write has a type of its own (`HeldTyped`, `DecayTyped`). The list and the next pair are chosen by rank and by order, so that they
are what they should be is a counting argument (the ranks of n memories are 0 to n - 1)
and one on finite sets (a set of pairs has a first).

**Migration.** The legacy column of a row is its original vector or empty, and a row is only
overwritten after its backup. A migration that goes through rows has one left
(`MigrationPlaces`): each step that takes one off ends the loop with the last.

**Tiered summaries.** How old an answer is depends on when its memories were read, not on
when it came: `AskedInTime` bounds the age of the question that is out by the attempts and waits
it has had, `KeptInTime` that of what the cache has by the lifetime on top.

**Thought chains.** What a thought revises or branches from was there before it (`CameFrom`),
so the places a history shows it at are those of rows it has; the history is ordered by
number, and its ranks are again a counting argument.

**Rank fusion.** A score is a sum over the rankings of `Scale` divided by k + rank, which is
exact (`Contribution`, `Total`); an item placed better wherever it is placed has the higher
sum, and a sort by score, whatever it does with ties, does not put it behind.

**Knowledge graph.** The invariant supposes a depth for each entity visited: some path has
it (`Found`), the queue is in its order and nothing visited is more than one deeper than the
node being looked at (`Layered`), and what no longer waits has had its neighbours visited,
at most one deeper (`Closed`). A path therefore cannot leave what has been visited before the
depth at which it is looked for, which makes the closure complete and the first chain found
a shortest one. A failed read gives up `Closed` and nothing else: the answer may be less, and is
still true.

**Project index.** Two halves. That a text's chunks give the text back: they tile its lines
(`Tiles`: each begins after the one before it and no later than just behind its end), because
the slices of a section do (`SlicesTile`, with the quotient rounded up), the sections lie between
ascending marks, and tilings of neighbours join; rows that ascend are in the order of
start_line already, and lines that each follow one that has been shown (`LeadsTo`) have their first
appearances in order (`ChunksShow`). That the rows are the chunks: `UnchangedIsIndexed` speaks
of a file nobody works on, so the invariant (`IndexInv`) has to say of the one worker an undisturbed
file can have what it has yet to do: until its delete the rows are as they were, and after it the rows
followed by what it has left to insert are the chunks of the text it read (`WorkerHas`). When it
tracks the hash, either that is the hash of this text, or the file is torn (`Whole`). A hash read
after the text, as the mutant does, could be that of a later text without the file being torn.

**Task cycle.** `NoSilentSkip` says of a task that strict mode calls complete only that
nothing is missing; the invariant says that in strict mode the steps done are a prefix of
the nine and the task is at the last of them, or at the end with all nine, so that the
table's short way from the first step to the end is never taken. That rests on
`CompleteProtocol` asking for the end only after it has stood at MEMORY_SAVE. In standard mode
a step out of order leaves a violation, and violations stay. The types (`CycleTyped`) add that a
waiver is of a step a phrase names, and follow the memories of a cycle through both handlers that
store them and the signals that change them.

**File ownership.** A task at work has the lock of its file with a status that is not terminal
(`HasItsLock`), which nobody else finds free; and a lock names a task that was told so
(`LocksAreTold`).

**Skills.** The tags a file's modifiers leave are those whose last word is an addition: the
merge is a recursive function over the modifiers, followed by a least counterexample. The
answer being given is then what the scope file and the front matter say (`SkillsInv`).

**Broker and peers.** `BrokerInv` and `PeersInv` are the types with the shape of the records. They
are about many servers or rows at once: a deactivation takes the client with the entry, an
import adds entries that have neither a process nor a client, and an activation may try several
transports and fail behind each; a peer is added to the list only where it is not in it, a
share only where there is none of its memory and peer, and the active peer is taken from a page
of the list.

**Backend.** `BackendImplementsAreas`: each step of the backend is a step of the area or a
stutter of it, so the backend implements the twelve areas' specifications;
`BackendKeepsItsPromises` carries their eleven properties over to it, and `BackendTypeCorrect`
their types.

**Only model-checked.** All liveness (`CallReturns`, `ReaderNotStuck`, `RequestReturns`,
`CrashNoticed`, `RecordSettles`, `CloseReturns`, `Ends`, `DispatchReturns`,
`ShutdownCompletes`, `JobsEnd`) is out of the prover's reach; every other property of a passing
run is a theorem. Induction over data with an operator as a parameter is out of its reach too;
where a proof needs it for one function, it takes the least number at which a claim fails
(`LeastNumber`).

## 5. Not modelled

- The data of messages, results, records, memories and prompts; JSON; logging.
- In `McpProxy`, a server that answers one id twice, and lines with an id the server was never
  sent, its own requests among them: `readLoop` takes any line with an id for a response
  (`proxy.go:155`) and looks it up among the calls to all servers. `OwnReply` rests on this.
- In `BrokerLifecycle`, concurrent requests, `HealthDeep`, the traffic of the HTTP client,
  and the delays of the handshake and of the stop (they may always expire).
- In `TaskRunner`, what a task is: `tasksToEntries` gives every task the coder agent, and
  `entryToTask` a new description; task ids are taken to be distinct.
- Of the task graph, `ValidateDependencyGraph`, a filter without state; `FindReadyTasks` and
  `FindBlockedTasks` are in `FileOwnership`.
- In `TieredSummaries`, the time the read of the memories takes; in `TrustAndDecay`, that the
  pool's close waits for the connections that requests and jobs hold (`Exit`): each holds one for
  the length of a statement, and a statement is one step here.
- In the backend: the command line, parsing, the health check, `ImproveHandler` (the backend
  configures none), `PromoteMemory`, the skill body cache and the classes for peers and
  shares, which only tests use; how a database ranks and how well an intent fits are
  choices.
- The embedding client and its sidecar (gRPC and a model), the TypeScript overlay, the
  Python web service, scripts and images: `PROJECT.json` lists them as `not_modelled`, each
  with its reason.

## 6. Plan

Done, in this order: the proxy, the lifecycle around it, the audit writer, the task graph,
the runner; then the areas of the backend and their composition; then the proofs of
ownership, migration, protocol, trust, and of the composition; then those of the task
graph, the lifecycle, the order of the audit log, the summaries, the thoughts, the skills, the
search, the walks and the index; last, the types of every area and of the backend.

Next: the reconnect of the embedding client (two callers and one connection).
