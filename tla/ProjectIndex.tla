----------------------------- MODULE ProjectIndex -----------------------------
(***************************************************************************)
(* The index of a project's files (memory/index, the table project_chunks, *)
(* IndexProject and GetFileContents of memory.go).                         *)
(*                                                                         *)
(* A run of Index is made by the request loop or by the goroutine of a     *)
(* background job; reindexFile is run by the watcher's debounce timers.    *)
(* They share the table and the tracker of hashes, and each reads a file   *)
(* twice: for its hash, and for its text.  An action is one read of a      *)
(* file, of the tracker or of the flag, or one statement.  Every statement *)
(* may fail.  A file may get any of its texts at any time, one it has had  *)
(* before too, and its hash says which of them it has.                     *)
(***************************************************************************)
EXTENDS Chunker

CONSTANTS
    Path,         \* files that pass ShouldIndexPath
    PathOrder,    \* the order in which WalkDir finds them
    Text,         \* Text[p]: the texts the file may have
    Loop,         \* the request loop
    Job,          \* ids of background jobs
    Timer,        \* goroutines of debounce timers that may run at a time
    MaxIndexRequests, \* bound: requests the loop serves itself
    MaxRestarts,  \* bound: restarts of the backend
    MaxFailures   \* bound: statements that fail

ASSUME ProjectIndexAssumption ==
    /\ \A p \in Path : /\ Len(Text[p]) \in Nat \ {0}
                       /\ \A v \in 1..Len(Text[p]) : IsFile(Text[p][v])
    /\ PathOrder \in Seq(Path) /\ {PathOrder[i] : i \in DOMAIN PathOrder} = Path
    /\ Loop \notin Job \cup Timer
    /\ Job \cap Timer = {}

VARIABLES
    version,    \* version[p]: the text the file had last, by its place in Text[p]
    present,    \* the files that exist
    rows,       \* project_chunks, by path
    tracked,    \* the tracker: the text whose hash it has, 0 for none
    indexing,   \* the flag that is to keep runs apart
    run,        \* what each worker is doing
    status,     \* backgroundJobs
    armed,      \* paths with a debounce timer
    watching,   \* the watcher has not been stopped
    served,     \* requests the loop has served itself
    restarts,
    failures,
    disturbed,  \* history: paths whose rows two workers, or a failure, may have upset
    torn        \* history: paths with the hash of another text than their rows are of

indexVars == <<version, present, rows, tracked, indexing, run, status, armed,
               watching, served, restarts, failures, disturbed, torn>>

Worker == {Loop} \cup Job \cup Timer
NoRun  == [pc |-> "none", force |-> FALSE, todo |-> <<>>, hash |-> 0, data |-> 0,
           left |-> <<>>, failed |-> FALSE]

\* A first start on an empty table.  The backend has no watcher; a program that has
\* one runs jobs beside it.  To bound a session, the process is restarted only when
\* the request loop itself runs no Index, and beside a watcher the statements fail
\* that its end makes fail.
IndexInit ==
    /\ version = [p \in Path |-> 1]
    /\ present = Path
    /\ rows = [p \in Path |-> <<>>]
    /\ tracked = [p \in Path |-> 0]
    /\ indexing = FALSE
    /\ run = [w \in Worker |-> NoRun]
    /\ status = [j \in Job |-> "none"]
    /\ armed = {}
    /\ disturbed = {}
    /\ torn = {}
    /\ \/ watching = FALSE /\ served = 0 /\ restarts = MaxRestarts /\ failures = 0
       \/ watching = FALSE /\ served = MaxIndexRequests /\ restarts = 0 /\ failures = 0
       \/ /\ watching = TRUE
          /\ served = MaxIndexRequests
          /\ restarts = MaxRestarts
          /\ failures = MaxFailures

files == <<version, present, armed, watching, restarts>>
calls == <<status, served, failures>>

IsTimer(w)   == w \in Timer
At(w, pc)    == run[w].pc = pc
File(w)      == Head(run[w].todo)
Goto(w, pc)  == run' = [run EXCEPT ![w].pc = pc]

\* Where w goes when it is done with a file.
Leave(w) ==
    run' = [run EXCEPT ![w].pc = IF IsTimer(w) THEN "none" ELSE "next",
                       ![w].todo = Tail(@)]

\* The workers that have read the hash of p and are not done with the file.
Busy(p) == {w \in Worker :
              /\ run[w].pc \in {"compare", "read", "delete", "insert", "drop", "forget"}
              /\ File(w) = p}

-----------------------------------------------------------------------------
(* IndexProject and the guard of Index.                                    *)

\* The request loop runs Index itself.
StartIndex(force) ==
    /\ At(Loop, "none")
    /\ served < MaxIndexRequests
    /\ served' = served + 1
    /\ run' = [run EXCEPT ![Loop] = [NoRun EXCEPT !.pc = "load", !.force = force]]
    /\ UNCHANGED <<files, rows, tracked, indexing, status, failures, disturbed, torn>>

\* A goroutine runs it, and the request is answered with its id.
StartJob(j, force) ==
    /\ At(Loop, "none")
    /\ status[j] = "none"
    /\ status' = [status EXCEPT ![j] = "running"]
    /\ run' = [run EXCEPT ![j] = [NoRun EXCEPT !.pc = "load", !.force = force]]
    /\ UNCHANGED <<files, rows, tracked, indexing, served, failures, disturbed, torn>>

IndexProject(force, background) ==
    \/ ~background /\ StartIndex(force)
    \/ background /\ \E j \in Job : StartJob(j, force)

LoadFlag(w) ==
    /\ At(w, "load")
    /\ run' = [run EXCEPT ![w].pc = IF indexing THEN "report" ELSE "store",
                          ![w].failed = indexing]
    /\ UNCHANGED <<files, calls, rows, tracked, indexing, disturbed, torn>>

StoreFlag(w) ==
    /\ At(w, "store")
    /\ indexing' = TRUE
    /\ Goto(w, "collect")
    /\ UNCHANGED <<files, calls, rows, tracked, disturbed, torn>>

CollectFailsEarly(w) ==
    /\ At(w, "collect")
    /\ run' = [run EXCEPT ![w].pc = "report", ![w].failed = TRUE]
    /\ UNCHANGED <<files, calls, rows, tracked, indexing, disturbed, torn>>

\* The path does not exist, is no directory, or cannot be walked.
CollectFails(w) ==
    /\ At(w, "collect")
    /\ run' = [run EXCEPT ![w].pc = "clear", ![w].failed = TRUE]
    /\ UNCHANGED <<files, calls, rows, tracked, indexing, disturbed, torn>>

\* The files there are, in the order of the walk.
CollectFiles(w) ==
    LET found == Ascending({i \in DOMAIN PathOrder : PathOrder[i] \in present}) IN
    /\ At(w, "collect")
    /\ run' = [run EXCEPT ![w].pc = "next",
                          ![w].todo = [k \in DOMAIN found |-> PathOrder[found[k]]]]
    /\ UNCHANGED <<files, calls, rows, tracked, indexing, disturbed, torn>>

\* The deferred Store(false), whichever run it was that had set the flag.
ClearFlag(w) ==
    /\ \/ At(w, "clear")
       \/ At(w, "next") /\ run[w].todo = <<>>
    /\ indexing' = FALSE
    /\ Goto(w, "report")
    /\ UNCHANGED <<files, calls, rows, tracked, disturbed, torn>>

Report(w) ==
    /\ At(w, "report")
    /\ status' = IF w = Loop THEN status
                 ELSE [status EXCEPT ![w] = IF run[w].failed THEN "failed" ELSE "completed"]
    /\ run' = [run EXCEPT ![w] = NoRun]
    /\ UNCHANGED <<files, rows, tracked, indexing, served, failures, disturbed, torn>>

-----------------------------------------------------------------------------
(* One file, in a run of Index or by a timer.                              *)

\* ComputeHash: the first read.
Hash(w) ==
    /\ IF IsTimer(w) THEN At(w, "hash") ELSE At(w, "next") /\ run[w].todo # <<>>
    /\ IF File(w) \in present
       THEN /\ run' = [run EXCEPT ![w].pc = "compare", ![w].hash = version[File(w)]]
            /\ disturbed' = IF Busy(File(w)) = {} THEN disturbed ELSE disturbed \cup {File(w)}
       ELSE IF IsTimer(w)
       THEN /\ Goto(w, "drop")
            /\ disturbed' = IF Busy(File(w)) = {} THEN disturbed ELSE disturbed \cup {File(w)}
       ELSE /\ Leave(w)
            /\ UNCHANGED disturbed
    /\ UNCHANGED <<files, calls, rows, tracked, indexing, torn>>

\* reindexFile deletes before it reads the text, Index after.
Compare(w) ==
    /\ At(w, "compare")
    /\ IF run[w].force \/ tracked[File(w)] # run[w].hash
       THEN Goto(w, IF IsTimer(w) THEN "delete" ELSE "read")
       ELSE Leave(w)
    /\ UNCHANGED <<files, calls, rows, tracked, indexing, disturbed, torn>>

\* The second read.  A timer that fails it has deleted the rows, and leaves the hash.
Read(w) ==
    /\ At(w, "read")
    /\ IF File(w) \in present
       THEN /\ run' = [run EXCEPT ![w].pc = IF IsTimer(w) THEN "insert" ELSE "delete",
                                  ![w].data = version[File(w)],
                                  ![w].left = ChunkFile(Text[File(w)][version[File(w)]])]
            /\ UNCHANGED torn
       ELSE /\ Leave(w)
            /\ torn' = IF IsTimer(w) THEN torn \cup {File(w)} ELSE torn
    /\ UNCHANGED <<files, calls, rows, tracked, indexing, disturbed>>

\* A timer's statements fail once Stop has cancelled their context.
CanExecute(w) == IsTimer(w) => watching

Fails(w) ==
    /\ CanExecute(w) => failures < MaxFailures
    /\ failures' = IF CanExecute(w) THEN failures + 1 ELSE failures

AfterDelete(w) == Goto(w, IF IsTimer(w) THEN "read" ELSE "insert")

\* The rows are whole again after the delete of a worker that has the file to itself.
Delete(w) ==
    /\ At(w, "delete")
    /\ CanExecute(w)
    /\ rows' = [rows EXCEPT ![File(w)] = <<>>]
    /\ disturbed' = IF Busy(File(w)) = {w} THEN disturbed \ {File(w)} ELSE disturbed
    /\ AfterDelete(w)
    /\ UNCHANGED <<files, calls, tracked, indexing, torn>>

\* Not fatal: the run goes on and adds to the old rows.
DeleteFails(w) ==
    /\ At(w, "delete")
    /\ Fails(w)
    /\ disturbed' = disturbed \cup {File(w)}
    /\ AfterDelete(w)
    /\ UNCHANGED <<files, status, served, rows, tracked, indexing, torn>>

\* The column embedding stays NULL: a ChunkResult carries no vector.
Stored(w) == [version |-> run[w].data, from |-> Head(run[w].left).from, to |-> Head(run[w].left).to,
              embedded |-> FALSE]

AddChunk(w) ==
    /\ At(w, "insert")
    /\ run[w].left # <<>>
    /\ CanExecute(w)
    /\ rows' = [rows EXCEPT ![File(w)] = Append(@, Stored(w))]
    /\ run' = [run EXCEPT ![w].left = Tail(@)]
    /\ UNCHANGED <<files, calls, tracked, indexing, disturbed, torn>>

\* The error is counted, and the file tracked all the same.
AddChunkFails(w) ==
    /\ At(w, "insert")
    /\ run[w].left # <<>>
    /\ Fails(w)
    /\ disturbed' = disturbed \cup {File(w)}
    /\ run' = [run EXCEPT ![w].left = Tail(@)]
    /\ UNCHANGED <<files, status, served, rows, tracked, indexing, torn>>

TornBy(w) ==
    IF run[w].hash = run[w].data THEN torn \ {File(w)} ELSE torn \cup {File(w)}

TrackReread(w) ==
    /\ At(w, "insert")
    /\ run[w].left = <<>>
    /\ tracked' = [tracked EXCEPT ![File(w)] = version[File(w)]]
    /\ torn' = TornBy(w)
    /\ Leave(w)
    /\ UNCHANGED <<files, calls, rows, indexing, disturbed>>

\* What is tracked is the hash of the first read.
Track(w) ==
    /\ At(w, "insert")
    /\ run[w].left = <<>>
    /\ tracked' = [tracked EXCEPT ![File(w)] = run[w].hash]
    /\ torn' = TornBy(w)
    /\ Leave(w)
    /\ UNCHANGED <<files, calls, rows, indexing, disturbed>>

\* A timer whose file is gone.
DropRows(t) ==
    /\ At(t, "drop")
    /\ \/ /\ CanExecute(t)
          /\ rows' = [rows EXCEPT ![File(t)] = <<>>]
          /\ UNCHANGED failures
       \/ /\ Fails(t)
          /\ UNCHANGED rows
    /\ Goto(t, "forget")
    /\ UNCHANGED <<files, status, served, tracked, indexing, disturbed, torn>>

Forget(t) ==
    /\ At(t, "forget")
    /\ tracked' = [tracked EXCEPT ![File(t)] = 0]
    /\ Leave(t)
    /\ UNCHANGED <<files, calls, rows, indexing, disturbed, torn>>

-----------------------------------------------------------------------------
(* What a client may ask.                                                  *)

\* WHERE embedding IS NOT NULL, of the files asked for.
SearchChunks(paths) ==
    {c \in UNION {{rows[p][i] : i \in DOMAIN rows[p]} : p \in paths} : c.embedded}

\* A path without rows is an error of the store.
GetFileChunksByPath(p) ==
    IF rows[p] = <<>> THEN [found |-> FALSE]
    ELSE [found |-> TRUE, contents |-> Contents(rows[p]), partial |-> Len(rows[p]) > 1]

\* The request loop answers; what it was asked is kept until the answer is written.
AnswerIndex(pc, triggerIndex, found) ==
    /\ At(Loop, "none")
    /\ served < MaxIndexRequests
    /\ served' = served + 1
    /\ run' = [run EXCEPT ![Loop] = [NoRun EXCEPT !.pc = pc, !.force = triggerIndex, !.data = found]]
    /\ UNCHANGED <<files, rows, tracked, indexing, status, failures, disturbed, torn>>

\* The error of the first lookup is returned before triggerIndex is looked at.
GetFileContents(p, triggerIndex) ==
    AnswerIndex(IF GetFileChunksByPath(p).found THEN "contents" ELSE "notFound", triggerIndex, 0)

IndexReply ==
    /\ run[Loop].pc \in {"contents", "notFound", "results"}
    /\ run' = [run EXCEPT ![Loop] = NoRun]
    /\ UNCHANGED <<files, calls, rows, tracked, indexing, disturbed, torn>>

handleIndexerIndex == \E force, background \in BOOLEAN : IndexProject(force, background)

handleIndexerGetFileContents ==
    \E p \in Path, triggerIndex \in BOOLEAN : GetFileContents(p, triggerIndex)

handleIndexerSearch ==
    \E paths \in SUBSET Path : AnswerIndex("results", FALSE, Cardinality(SearchChunks(paths)))

-----------------------------------------------------------------------------
(* The files, the watcher and the process.                                 *)

\* The watcher's goroutine arms the timer of the path again for each event.
Event(p) == armed' = IF watching THEN armed \cup {p} ELSE armed

\* The file gets another text, or one that it has had before.
WriteFile(p) ==
    /\ \E v \in 1..Len(Text[p]) : version' = [version EXCEPT ![p] = v]
    /\ present' = present \cup {p}
    /\ Event(p)
    /\ UNCHANGED <<rows, tracked, indexing, run, status, watching, served, restarts,
                   failures, disturbed, torn>>

RemoveFile(p) ==
    /\ p \in present
    /\ present' = present \ {p}
    /\ Event(p)
    /\ UNCHANGED <<version, rows, tracked, indexing, run, status, watching, served, restarts,
                   failures, disturbed, torn>>

\* Stop does not stop the timers: they fire with a cancelled context.
TimerFires(t) ==
    /\ At(t, "none")
    /\ \E p \in armed :
          /\ armed' = armed \ {p}
          /\ run' = [run EXCEPT ![t] = [NoRun EXCEPT !.pc = "hash", !.todo = <<p>>]]
    /\ UNCHANGED <<version, present, rows, tracked, indexing, status, watching, served,
                   restarts, failures, disturbed, torn>>

StopWatcher ==
    /\ watching
    /\ watching' = FALSE
    /\ UNCHANGED <<version, present, rows, tracked, indexing, run, status, armed, served,
                   restarts, failures, disturbed, torn>>

\* The process dies at any step; the next one has the table, and nothing else.
Restart ==
    /\ restarts < MaxRestarts
    /\ restarts' = restarts + 1
    /\ tracked' = [p \in Path |-> 0]
    /\ indexing' = FALSE
    /\ run' = [w \in Worker |-> NoRun]
    /\ status' = [j \in Job |-> "none"]
    /\ armed' = {}
    /\ disturbed' = {}
    /\ torn' = {}
    /\ UNCHANGED <<version, present, rows, watching, served, failures>>

-----------------------------------------------------------------------------
\* A step of a run of Index, or of a timer's reindexFile.
IndexStep(w) ==
    \/ LoadFlag(w)
    \/ StoreFlag(w)
    \/ CollectFails(w)
    \/ CollectFiles(w)
    \/ ClearFlag(w)
    \/ Report(w)

FileStep(w) ==
    \/ Hash(w)
    \/ Compare(w)
    \/ Read(w)
    \/ Delete(w)
    \/ DeleteFails(w)
    \/ AddChunk(w)
    \/ AddChunkFails(w)
    \/ Track(w)

IndexNext ==
    \/ handleIndexerIndex
    \/ handleIndexerGetFileContents
    \/ handleIndexerSearch
    \/ IndexReply
    \/ \E w \in {Loop} \cup Job : IndexStep(w)
    \/ \E w \in Worker : FileStep(w)
    \/ \E t \in Timer : DropRows(t)
    \/ \E t \in Timer : Forget(t)
    \/ \E t \in Timer : TimerFires(t)
    \/ \E p \in Path : WriteFile(p)
    \/ \E p \in Path : RemoveFile(p)
    \/ StopWatcher
    \/ Restart

\* Reads of files and statements end: the goroutine of a run goes on.
IndexFairness ==
    \A w \in {Loop} \cup Job : WF_indexVars(IndexStep(w) \/ FileStep(w))

IndexSpec == IndexInit /\ [][IndexNext]_indexVars /\ IndexFairness

-----------------------------------------------------------------------------
IndexTypeOK ==
    /\ \A p \in Path : version[p] \in 1..Len(Text[p]) /\ tracked[p] \in 0..Len(Text[p])
    /\ present \subseteq Path
    /\ indexing \in BOOLEAN
    /\ \A w \in Worker : run[w].pc \in {"none", "load", "store", "collect", "clear", "report",
                                         "next", "hash", "compare", "read", "delete", "insert",
                                         "drop", "forget", "contents", "notFound", "results"}
    /\ \A j \in Job : status[j] \in {"none", "running", "failed", "completed"}
    /\ armed \subseteq Path
    /\ disturbed \subseteq Path
    /\ torn \subseteq Path

\* The lines of a text of m lines, each of them first after the one before it.
Shows(shown, v, m) ==
    LET First(l) == CHOOSE i \in DOMAIN shown :
                      /\ shown[i].line = l
                      /\ \A k \in 1..(i - 1) : shown[k].line # l
    IN  /\ {shown[i] : i \in DOMAIN shown} = {[version |-> v, line |-> l] : l \in 1..m}
        /\ \A l \in 1..(m - 1) : First(l) < First(l + 1)

\* A file the next run will pass over as unchanged is indexed as it is now: its
\* contents are served from the index with every line, in order of their first
\* appearance, and no line of another text; no chunk is there twice.  The file may
\* have been written and put back any number of times.  Excepted are files whose
\* rows a failed statement or a second worker has upset, until a worker has deleted
\* and inserted them alone; files whose text changed between the read for the hash
\* and the read for the rows; and files that a timer could no longer read when it
\* had deleted their rows, until a worker has read one text both times
\* (indexer.go:90, watcher.go:184).
UnchangedIsIndexed ==
    \A p \in present \ (disturbed \cup torn) :
        Busy(p) = {} /\ tracked[p] = version[p] =>
            /\ Shows(Contents(rows[p]), version[p], Text[p][version[p]].lines)
            /\ \A i, j \in DOMAIN rows[p] : i # j => rows[p][i] # rows[p][j]

\* A background job that is running ends, though it may have been refused, and
\* the flag does not stay set: the next run is not refused for ever, whatever
\* runs have overlapped (indexer.go:40, memory.go:594).
JobsEnd ==
    /\ \A j \in Job : (status[j] = "running") ~> (status[j] # "running")
    /\ indexing ~> ~indexing
=============================================================================
