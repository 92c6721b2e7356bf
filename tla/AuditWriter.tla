----------------------------- MODULE AuditWriter -----------------------------
(***************************************************************************)
(* The tool-call audit writer of the broker (audit/audit.go, AuditWriter). *)
(* Calls append records to a buffer under a mutex; the flush loop, callers *)
(* of Flush and Close take the buffer under the mutex and write it to the  *)
(* sinks outside it, the JSONL file record by record and PostgreSQL in one *)
(* transaction.  Whether a sink is there is tested, without the mutex,     *)
(* before it is used; Close closes each sink and then clears the field.    *)
(***************************************************************************)
EXTENDS Naturals, Sequences

CONSTANTS
    Records,   \* one per tool call; Broker.Call writes each once
    Flushers,  \* goroutines that call Flush once
    Closers,   \* goroutines that call Close once
    Loop,      \* the goroutine of flushLoop
    MayFail    \* the sinks whose writes may fail

Sinks  == {"jsonl", "pg"}
Actors == {Loop} \cup Flushers \cup Closers

ASSUME AuditAssumption ==
    /\ MayFail \subseteq Sinks
    /\ Loop \notin Flushers \cup Closers
    /\ Flushers \cap Closers = {}

VARIABLES
    called,    \* the records whose Write has returned
    accepted,  \* history: the records Write appended, in that order
    buf,       \* AuditWriter.buf
    closed,    \* AuditWriter.closed, and the close of flusherCh that follows it
    handle,    \* jsonlFile and pgDB: open, closed but still in the field, or nil
    log,       \* what each sink holds
    lost,      \* history: the records a sink did not take, with an error
    skipped,   \* history: the records that met a nil field, without an error
    panicked,  \* BeginTx on a nil *sql.DB ended the back end
    pc,        \* control state of each actor
    batch,     \* the records an actor has taken
    at         \* how many of them it has encoded to the JSONL file

vars == <<called, accepted, buf, closed, handle, log, lost, skipped, panicked, pc, batch, at>>

Elements(s) == {s[i] : i \in DOMAIN s}

Init ==
    /\ called = {}
    /\ accepted = <<>>
    /\ buf = <<>>
    /\ closed = FALSE
    /\ handle = [k \in Sinks |-> "open"]
    /\ log = [k \in Sinks |-> <<>>]
    /\ lost = [k \in Sinks |-> {}]
    /\ skipped = [k \in Sinks |-> {}]
    /\ panicked = FALSE
    /\ pc = [x \in Actors |-> "idle"]
    /\ batch = [x \in Actors |-> <<>>]
    /\ at = [x \in Actors |-> 0]

-----------------------------------------------------------------------------
\* A Write that does not look at closed.
WriteUnguarded(r) ==
    /\ r \notin called
    /\ called' = called \cup {r}
    /\ buf' = Append(buf, r)
    /\ accepted' = Append(accepted, r)
    /\ UNCHANGED <<closed, handle, log, lost, skipped, panicked, pc, batch, at>>

\* Broker.Call audits every call once, denied, failed or not.  The Signal on a
\* full batch has no waiter.
Write(r) ==
    /\ r \notin called
    /\ called' = called \cup {r}
    /\ \/ closed /\ UNCHANGED <<buf, accepted>>
       \/ ~closed /\ buf' = Append(buf, r) /\ accepted' = Append(accepted, r)
    /\ UNCHANGED <<closed, handle, log, lost, skipped, panicked, pc, batch, at>>

Goto(x, from, to) == pc[x] = from /\ pc' = [pc EXCEPT ![x] = to]

\* The batch is taken but left in the buffer.
TakeCopy(x) ==
    /\ batch' = [batch EXCEPT ![x] = buf]
    /\ at' = [at EXCEPT ![x] = 0]
    /\ buf' = buf

\* takeBufferLocked
Take(x) ==
    /\ batch' = [batch EXCEPT ![x] = buf]
    /\ at' = [at EXCEPT ![x] = 0]
    /\ buf' = <<>>

\* Flush, by a tick of the loop or by a caller: an empty batch ends it at once.
Flush(x) ==
    /\ x \in {Loop} \cup Flushers
    /\ \/ buf # <<>> /\ Goto(x, "idle", "jsonl")
       \/ buf = <<>> /\ Goto(x, "idle", IF x = Loop THEN "idle" ELSE "done")
    /\ Take(x)
    /\ UNCHANGED <<called, accepted, closed, handle, log, lost, skipped, panicked>>

\* A loop that looks at flusherCh only when there is something to flush.
EndLoopIfWork ==
    /\ closed
    /\ buf # <<>>
    /\ Goto(Loop, "idle", "done")
    /\ UNCHANGED <<called, accepted, buf, closed, handle, log, lost, skipped, panicked, batch, at>>

\* The loop selects the closed flusherCh.
EndLoop ==
    /\ closed
    /\ Goto(Loop, "idle", "done")
    /\ UNCHANGED <<called, accepted, buf, closed, handle, log, lost, skipped, panicked, batch, at>>

-----------------------------------------------------------------------------
(* writeAll: an error of the file does not keep the batch from PostgreSQL. *)

AfterBatch(x) ==
    IF x = Loop THEN "idle" ELSE IF x \in Flushers THEN "done" ELSE "closing"

\* What the file has not got of the batch.
Unwritten(x) == {batch[x][i] : i \in at[x]+1 .. Len(batch[x])}

\* w.jsonlFile is nil: the file is passed over, and that is no error.
SkipFile(x) ==
    /\ handle["jsonl"] = "nil"
    /\ Goto(x, "jsonl", "pg")
    /\ skipped' = [skipped EXCEPT !["jsonl"] = @ \cup Unwritten(x)]
    /\ UNCHANGED <<called, accepted, buf, closed, handle, log, lost, panicked, batch, at>>

UseFile(x) ==
    /\ handle["jsonl"] # "nil"
    /\ Goto(x, "jsonl", "encode")
    /\ UNCHANGED <<called, accepted, buf, closed, handle, log, lost, skipped, panicked, batch, at>>

EncodeRecord(x) ==
    /\ pc[x] = "encode"
    /\ handle["jsonl"] = "open"
    /\ at[x] < Len(batch[x])
    /\ log' = [log EXCEPT !["jsonl"] = Append(@, batch[x][at[x] + 1])]
    /\ at' = [at EXCEPT ![x] = @ + 1]
    /\ UNCHANGED <<called, accepted, buf, closed, handle, lost, skipped, panicked, pc, batch>>

Encoded(x) ==
    /\ at[x] = Len(batch[x])
    /\ Goto(x, "encode", "pg")
    /\ UNCHANGED <<called, accepted, buf, closed, handle, log, lost, skipped, panicked, batch, at>>

\* writeJSONL returns at the first record that fails: the rest of the batch never
\* reaches the file.
EncodeFails(x) ==
    /\ at[x] < Len(batch[x])
    /\ "jsonl" \in MayFail \/ handle["jsonl"] # "open"
    /\ Goto(x, "encode", "pg")
    /\ lost' = [lost EXCEPT !["jsonl"] = @ \cup Unwritten(x)]
    /\ UNCHANGED <<called, accepted, buf, closed, handle, log, skipped, panicked, batch, at>>

\* The end of a writeAll that was at from.
Finish(x, from) ==
    /\ Goto(x, from, AfterBatch(x))
    /\ batch' = [batch EXCEPT ![x] = <<>>]
    /\ at' = [at EXCEPT ![x] = 0]

\* w.pgDB is nil: PostgreSQL is passed over, and that is no error.
SkipDB(x) ==
    /\ handle["pg"] = "nil"
    /\ Finish(x, "pg")
    /\ skipped' = [skipped EXCEPT !["pg"] = @ \cup Elements(batch[x])]
    /\ UNCHANGED <<called, accepted, buf, closed, handle, log, lost, panicked>>

UseDB(x) ==
    /\ handle["pg"] # "nil"
    /\ Goto(x, "pg", "begin")
    /\ UNCHANGED <<called, accepted, buf, closed, handle, log, lost, skipped, panicked, batch, at>>

BeginTx(x) ==
    /\ handle["pg"] = "open"
    /\ Goto(x, "begin", "commit")
    /\ UNCHANGED <<called, accepted, buf, closed, handle, log, lost, skipped, panicked, batch, at>>

\* The field was cleared since it was tested: BeginTx of a nil *sql.DB.
BeginPanics(x) ==
    /\ handle["pg"] = "nil"
    /\ pc[x] = "begin"
    /\ panicked' = TRUE
    /\ UNCHANGED <<called, accepted, buf, closed, handle, log, lost, skipped, pc, batch, at>>

\* The position in the file is kept for the next batch.
InsertBatchKeepsAt(x) ==
    /\ Goto(x, "commit", AfterBatch(x))
    /\ log' = [log EXCEPT !["pg"] = @ \o batch[x]]
    /\ batch' = [batch EXCEPT ![x] = <<>>]
    /\ UNCHANGED <<called, accepted, buf, closed, handle, lost, skipped, panicked, at>>

\* writePG: one transaction, all of the batch or nothing.  One that has begun keeps
\* its connection when the pool is closed.
InsertBatch(x) ==
    /\ Finish(x, "commit")
    /\ log' = [log EXCEPT !["pg"] = @ \o batch[x]]
    /\ UNCHANGED <<called, accepted, buf, closed, handle, lost, skipped, panicked>>

InsertFails(x) ==
    /\ \/ "pg" \in MayFail /\ (Finish(x, "begin") \/ Finish(x, "commit"))
       \/ handle["pg"] = "closed" /\ Finish(x, "begin")
    /\ lost' = [lost EXCEPT !["pg"] = @ \cup Elements(batch[x])]
    /\ UNCHANGED <<called, accepted, buf, closed, handle, log, skipped, panicked>>

-----------------------------------------------------------------------------
(* Close.                                                                  *)

\* A Close that leaves the buffer to the loop.
CloseDropsBuffer(x) ==
    /\ x \in Closers
    /\ ~closed
    /\ Goto(x, "idle", "join")
    /\ closed' = TRUE
    /\ UNCHANGED <<called, accepted, buf, handle, log, lost, skipped, panicked, batch, at>>

Close(x) ==
    /\ x \in Closers
    /\ ~closed
    /\ Goto(x, "idle", "join")
    /\ closed' = TRUE
    /\ Take(x)
    /\ UNCHANGED <<called, accepted, handle, log, lost, skipped, panicked>>

CloseAgain(x) ==
    /\ x \in Closers
    /\ closed
    /\ Goto(x, "idle", "done")
    /\ UNCHANGED <<called, accepted, buf, closed, handle, log, lost, skipped, panicked, batch, at>>

\* A Close that does not wait for the loop.
JoinNoWait(x) ==
    /\ Goto(x, "join", IF batch[x] = <<>> THEN "closing" ELSE "jsonl")
    /\ UNCHANGED <<called, accepted, buf, closed, handle, log, lost, skipped, panicked, batch, at>>

\* flusherWG.Wait
Join(x) ==
    /\ pc[Loop] = "done"
    /\ Goto(x, "join", IF batch[x] = <<>> THEN "closing" ELSE "jsonl")
    /\ UNCHANGED <<called, accepted, buf, closed, handle, log, lost, skipped, panicked, batch, at>>

\* A sink is closed, and then its field cleared.
SetHandle(x, k, from, to, h) ==
    /\ Goto(x, from, to)
    /\ handle' = [handle EXCEPT ![k] = h]
    /\ UNCHANGED <<called, accepted, buf, closed, log, lost, skipped, panicked, batch, at>>

CloseFile(x) == SetHandle(x, "jsonl", "closing", "fileClosed", "closed")
ClearFile(x) == SetHandle(x, "jsonl", "fileClosed", "closingDB", "nil")
CloseDB(x)   == SetHandle(x, "pg", "closingDB", "dbClosed", "closed")
ClearDB(x)   == SetHandle(x, "pg", "dbClosed", "done", "nil")

-----------------------------------------------------------------------------

WriteAll(x) ==
    \/ SkipFile(x) \/ UseFile(x) \/ EncodeRecord(x) \/ Encoded(x) \/ EncodeFails(x)
    \/ SkipDB(x) \/ UseDB(x) \/ BeginTx(x) \/ BeginPanics(x) \/ InsertBatch(x) \/ InsertFails(x)

CloseSinks(x) == CloseFile(x) \/ ClearFile(x) \/ CloseDB(x) \/ ClearDB(x)

ActorStep(x) ==
    \/ Flush(x) \/ WriteAll(x)
    \/ Close(x) \/ CloseAgain(x) \/ Join(x) \/ CloseSinks(x)

Next ==
    /\ ~panicked
    /\ \/ \E r \in Records : Write(r)
       \/ EndLoop
       \/ \E x \in Actors : ActorStep(x)

Spec == Init /\ [][Next]_vars

\* The ticker ticks, a select whose channel stays closed takes it in the end (it
\* chooses at random), and a goroutine in writeAll or Close goes on.
Fairness ==
    /\ WF_vars(~panicked /\ Flush(Loop))
    /\ SF_vars(~panicked /\ EndLoop)
    /\ \A x \in Actors : WF_vars(~panicked /\ (WriteAll(x) \/ Join(x) \/ CloseSinks(x)))

FairSpec == Spec /\ Fairness

-----------------------------------------------------------------------------
(* Properties.                                                             *)

Writing == {"jsonl", "encode", "pg", "begin", "commit"}

Places == Writing \cup
    {"idle", "join", "closing", "fileClosed", "closingDB", "dbClosed", "done"}

TypeOK ==
    /\ called \subseteq Records
    /\ accepted \in Seq(Records)
    /\ buf \in Seq(Records)
    /\ closed \in BOOLEAN
    /\ handle \in [Sinks -> {"open", "closed", "nil"}]
    /\ log \in [Sinks -> Seq(Records)]
    /\ lost \in [Sinks -> SUBSET Records]
    /\ skipped \in [Sinks -> SUBSET Records]
    /\ panicked \in BOOLEAN
    /\ pc \in [Actors -> Places]
    /\ batch \in [Actors -> Seq(Records)]
    /\ at \in [Actors -> Nat]
    /\ \A x \in Actors : at[x] <= Len(batch[x])

\* Some goroutine has a batch it has not finished writing.
InHand == \E x \in Actors : pc[x] \in {"join"} \cup Writing

Over == (\A k \in Sinks : handle[k] = "nil") /\ ~InHand

Jsonl == INSTANCE AuditLog WITH
    accepted <- Elements(accepted), stored <- Elements(log["jsonl"]), lost <- lost["jsonl"],
    skipped <- skipped["jsonl"], closed <- handle["jsonl"] = "nil", shut <- Over

Pg == INSTANCE AuditLog WITH
    accepted <- Elements(accepted), stored <- Elements(log["pg"]), lost <- lost["pg"],
    skipped <- skipped["pg"], closed <- handle["pg"] = "nil", shut <- Over

\* Each sink is the log AuditLog promises: a record that Write accepted is stored,
\* lost to an error that writeAll returned, or passed over without one, which happens
\* only when Close has cleared the sink; it is one of these only, and none is left in
\* the buffer or in a batch when Close is over, however the loop, Flush and Close
\* interleave.  A Flush that a Close overtakes can instead end the back end: then
\* Close is never over.
JsonlLog == Jsonl!Spec
PgLog    == Pg!Spec

Distinct(s) == \A i, j \in DOMAIN s : s[i] = s[j] => i = j

\* No batch is written twice: the buffer is given away when it is taken.
NoDuplicate == \A k \in Sinks : Distinct(log[k])

Before(s, r, t) == \E i, j \in DOMAIN s : i < j /\ s[i] = r /\ s[j] = t

\* While nobody calls Flush, the sinks hold the records in the order of the calls:
\* Close waits for the loop before it writes what the loop had not taken.
InOrder ==
    (\A x \in Flushers : pc[x] = "idle") =>
        \A k \in Sinks : \A r, t \in Records :
            Before(log[k], r, t) => Before(accepted, r, t)

-----------------------------------------------------------------------------
(* Where a record is, for the proof that the promise is kept.              *)

\* What actor x holds and has not yet written to sink k.
Rest(k, x) ==
    CASE k = "jsonl" /\ pc[x] \in {"join", "jsonl", "encode"} -> Unwritten(x)
      [] k = "pg" /\ pc[x] \in {"join"} \cup Writing -> Elements(batch[x])
      [] OTHER -> {}

Settled(k) == Elements(log[k]) \cup lost[k] \cup skipped[k]

\* An accepted record is in the buffer, in a batch, or settled ...
Placed(k) ==
    /\ \A r \in Elements(accepted) :
            r \in Elements(buf) \cup Settled(k) \/ \E x \in Actors : r \in Rest(k, x)
    /\ Elements(buf) \cup Settled(k) \subseteq Elements(accepted)
    /\ \A x \in Actors : Rest(k, x) \subseteq Elements(accepted)

\* ... and only one of these.
Apart(k) ==
    /\ Elements(buf) \cap Settled(k) = {}
    /\ Elements(log[k]) \cap lost[k] = {}
    /\ (Elements(log[k]) \cup lost[k]) \cap skipped[k] = {}
    /\ \A x \in Actors : Rest(k, x) \cap (Elements(buf) \cup Settled(k)) = {}
    /\ \A x, y \in Actors : x # y => Rest(k, x) \cap Rest(k, y) = {}

Repeatless == Distinct(buf) /\ \A x \in Actors : Distinct(batch[x])

\* The buffer stays empty from Close on, and only Close shuts a sink.
Closing ==
    /\ closed => buf = <<>>
    /\ \A k \in Sinks : handle[k] # "open" => closed
    /\ \A x \in Actors :
            pc[x] \in {"join", "closing", "fileClosed", "closingDB", "dbClosed"} => x \in Closers
    /\ \A x \in Closers : pc[x] # "idle" => closed

\* One Close at most is under way, and it writes when the loop has ended.
OneAtATime ==
    /\ \A c, d \in Closers : pc[c] \notin {"idle", "done"} /\ pc[d] \notin {"idle", "done"} => c = d
    /\ \A c \in Closers : pc[c] \in Writing => pc[Loop] = "done"

\* Its place says what it has done to the sinks, so no sink is closed after its field
\* was cleared.
Handles ==
    \A c \in Closers : pc[c] \notin {"idle", "done"} =>
        /\ handle["jsonl"] = IF pc[c] \in {"closingDB", "dbClosed"} THEN "nil"
                             ELSE IF pc[c] = "fileClosed" THEN "closed" ELSE "open"
        /\ handle["pg"] = IF pc[c] = "dbClosed" THEN "closed" ELSE "open"

IInv ==
    /\ TypeOK
    /\ NoDuplicate
    /\ Repeatless
    /\ Elements(accepted) \subseteq called
    /\ Closing
    /\ OneAtATime
    /\ Handles
    /\ \A k \in Sinks : Placed(k) /\ Apart(k)

-----------------------------------------------------------------------------
\* Every accepted record is written, lost to an error or passed over after Close, by
\* the ticker or by Close: none stays in the buffer while the back end runs.
RecordSettles ==
    \A k \in Sinks : \A r \in Records :
        r \in Elements(accepted) ~> (r \in Settled(k) \/ panicked)

\* Close does not wait for ever for a loop that is busy with its last batch.
CloseReturns == \A x \in Closers : pc[x] = "join" ~> (pc[x] = "done" \/ panicked)
=============================================================================
