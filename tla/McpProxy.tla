------------------------------ MODULE McpProxy ------------------------------
(***************************************************************************)
(* The JSON-RPC multiplexer of the broker (proxy/proxy.go, type MCPProxy). *)
(* One MCPProxy serves every stdio server: a table of pending requests, a  *)
(* reader goroutine per server process, and the goroutines that run        *)
(* sendRPC.  Every step below is the code between two lock operations or   *)
(* two channel operations, so all the interleavings the Go scheduler can   *)
(* produce are behaviours of this specification.                           *)
(***************************************************************************)
EXTENDS Naturals, FiniteSets

CONSTANTS
    Streams,     \* server processes; each has one stdin and one stdout pipe
    Calls,       \* goroutines, each runs sendRPC once
    Handshakes,  \* the calls that come from Initialize (they notify afterwards)
    MaxId,       \* bound on the request ids handed out (nextID is an int64)
    MaxStops,    \* bound on the number of times Stop is called
    MayStall,    \* the servers that may stop draining their stdin
    None         \* nil: no channel, no call

ASSUME ProxyAssumption ==
    /\ MaxId \in Nat
    /\ MaxStops \in Nat
    /\ Handshakes \subseteq Calls
    /\ MayStall \subseteq Streams
    /\ None \notin Streams \cup Calls

VARIABLES
    nextID,      \* MCPProxy.nextID
    pending,     \* MCPProxy.pending: request id -> the call that owns the channel
    running,     \* MCPProxy.running
    readerCh,    \* MCPProxy.readerCh: the StartReader that made it, or nil
    doneClosed,  \* has the channel now in MCPProxy.readerDone been closed?
    writer,      \* the call that holds MCPProxy.writeMu
    panicked,    \* a send on, or a close of, a closed channel ended the process
    stops,       \* calls of Stop so far
    reader,      \* control state of the reader goroutine of each stream
    line,        \* id in the line the reader holds, 0 when it is no response
    gateCh,      \* the reader's copy of readerCh
    target,      \* the call whose channel the reader looked up
    cpc,         \* control state of each call
    dest,        \* the stream a call writes to
    callID,      \* the id a call was given, 0 before
    buf,         \* the buffered response in the call's channel, as <<id, stream>>
    closed,      \* the calls whose channel Stop has closed
    got,         \* the response a call received
    inbox,       \* external: the requests whose answer a reader may yet read
    exited,      \* external: the server process has ended
    stalled      \* external: the server no longer drains its stdin

proxyVars  == <<nextID, pending, running, readerCh, doneClosed, writer, panicked, stops>>
readerVars == <<reader, line, gateCh, target>>
callVars   == <<cpc, dest, callID, buf, closed, got>>
serverVars == <<inbox, exited, stalled>>
vars == <<proxyVars, readerVars, callVars, serverVars>>

Ids     == 1..MaxId
NoReply == <<0, None>>
Replies == Ids \X Streams

ReaderStates == {"none", "scan", "gate", "lookup", "deliver", "closing", "dead"}
CallStates   == {"idle", "registered", "writing", "waiting", "answered", "leaving",
                 "notify", "notifying", "done"}

-----------------------------------------------------------------------------
(* Initial states: NewMCPProxy has run, the processes are launched and no  *)
(* reader is attached yet.                                                 *)

Init ==
    /\ nextID = 1
    /\ pending = [i \in Ids |-> None]
    /\ running = FALSE
    /\ readerCh = None
    /\ doneClosed = FALSE
    /\ writer = None
    /\ panicked = FALSE
    /\ stops = 0
    /\ reader = [s \in Streams |-> "none"]
    /\ line = [s \in Streams |-> 0]
    /\ gateCh = [s \in Streams |-> None]
    /\ target = [s \in Streams |-> None]
    /\ cpc = [c \in Calls |-> "idle"]
    /\ dest = [c \in Calls |-> None]
    /\ callID = [c \in Calls |-> 0]
    /\ buf = [c \in Calls |-> NoReply]
    /\ closed = {}
    /\ got = [c \in Calls |-> NoReply]
    /\ inbox = [s \in Streams |-> {}]
    /\ exited = [s \in Streams |-> FALSE]
    /\ stalled = [s \in Streams |-> FALSE]

-----------------------------------------------------------------------------
(* StartReader and Stop, each one critical section under mu.  A readerCh   *)
(* other than the current one has been closed, so "is closed" needs no     *)
(* variable of its own.                                                    *)

StartReader(s) ==
    /\ reader[s] = "none"
    /\ readerCh' = s
    /\ doneClosed' = FALSE
    /\ running' = TRUE
    /\ reader' = [reader EXCEPT ![s] = "scan"]
    /\ UNCHANGED <<nextID, pending, writer, panicked, stops, line, gateCh, target,
                   callVars, serverVars>>

Waiters == {pending[i] : i \in Ids} \ {None}

Stop ==
    /\ stops < MaxStops
    /\ stops' = stops + 1
    /\ readerCh' = None
    /\ running' = FALSE
    /\ closed' = closed \cup Waiters
    /\ pending' = [i \in Ids |-> None]
    /\ UNCHANGED <<nextID, doneClosed, writer, panicked, readerVars, cpc, dest,
                   callID, buf, got, serverVars>>

-----------------------------------------------------------------------------
(* readLoop.  ReadLine covers scanner.Scan and the copy of readerCh made   *)
(* under the lock; a line without a usable id is line 0.  Locals are reset *)
(* when they go out of scope.                                              *)

ReadLine(s) ==
    /\ reader[s] = "scan"
    /\ \/ \E i \in inbox[s] :
            /\ line' = [line EXCEPT ![s] = i]
            /\ inbox' = [inbox EXCEPT ![s] = @ \ {i}]
       \/ /\ ~exited[s]
          /\ line' = [line EXCEPT ![s] = 0]
          /\ inbox' = inbox
    /\ gateCh' = [gateCh EXCEPT ![s] = readerCh]
    /\ reader' = [reader EXCEPT ![s] = "gate"]
    /\ UNCHANGED <<proxyVars, target, callVars, exited, stalled>>

GateClosed(s) == gateCh[s] # None /\ gateCh[s] # readerCh

\* The non-blocking select on the copied channel, outside the lock.
Gate(s) ==
    /\ reader[s] = "gate"
    /\ \/ /\ GateClosed(s)
          /\ reader' = [reader EXCEPT ![s] = "closing"]
          /\ line' = [line EXCEPT ![s] = 0]
       \/ /\ ~GateClosed(s)
          /\ reader' = [reader EXCEPT ![s] = IF line[s] = 0 THEN "scan" ELSE "lookup"]
          /\ line' = line
    /\ gateCh' = [gateCh EXCEPT ![s] = None]
    /\ UNCHANGED <<proxyVars, target, callVars, serverVars>>

Lookup(s) ==
    /\ reader[s] = "lookup"
    /\ target' = [target EXCEPT ![s] = pending[line[s]]]
    /\ \/ /\ target'[s] = None
          /\ reader' = [reader EXCEPT ![s] = "scan"]
          /\ line' = [line EXCEPT ![s] = 0]
       \/ /\ target'[s] # None
          /\ reader' = [reader EXCEPT ![s] = "deliver"]
          /\ line' = line
    /\ UNCHANGED <<proxyVars, gateCh, callVars, serverVars>>

\* A send on an unbuffered channel would need the receiver in its select.
CanSendUnbuffered(c) == buf[c] = NoReply /\ cpc[c] = "waiting"

\* make(chan *jsonrpcResponse, 1): room unless the one slot is taken.
CanSend(c) == buf[c] = NoReply

Deliver(s) ==
    /\ reader[s] = "deliver"
    /\ target[s] \notin closed
    /\ CanSend(target[s])
    /\ buf' = [buf EXCEPT ![target[s]] = <<line[s], s>>]
    /\ reader' = [reader EXCEPT ![s] = "scan"]
    /\ line' = [line EXCEPT ![s] = 0]
    /\ target' = [target EXCEPT ![s] = None]
    /\ UNCHANGED <<proxyVars, gateCh, cpc, dest, callID, closed, got, serverVars>>

\* Stop closed the channel between the lookup and the send.
SendOnClosed(s) ==
    /\ reader[s] = "deliver"
    /\ target[s] \in closed
    /\ panicked' = TRUE
    /\ UNCHANGED <<nextID, pending, running, readerCh, doneClosed, writer, stops,
                   readerVars, callVars, serverVars>>

\* scanner.Scan returns false, then running is cleared under mu.
StopScanning(s) ==
    /\ reader[s] = "scan"
    /\ running' = FALSE
    /\ reader' = [reader EXCEPT ![s] = "closing"]
    /\ UNCHANGED <<nextID, pending, readerCh, doneClosed, writer, panicked, stops,
                   line, gateCh, target, callVars, serverVars>>

\* The pipe is drained and the process gone.
EndOfStream(s) ==
    /\ exited[s]
    /\ inbox[s] = {}
    /\ StopScanning(s)

\* A line, a response or not, that the scanner's buffer of 1 MiB cannot hold.
LineTooLong(s) ==
    /\ ~exited[s] \/ inbox[s] # {}
    /\ StopScanning(s)

\* close(p.readerDone): the field may belong to a later StartReader by now.
CloseDone(s) ==
    /\ reader[s] = "closing"
    /\ reader' = [reader EXCEPT ![s] = "dead"]
    /\ doneClosed' = TRUE
    /\ panicked' = doneClosed
    /\ UNCHANGED <<nextID, pending, running, readerCh, writer, stops, line, gateCh,
                   target, callVars, serverVars>>

-----------------------------------------------------------------------------
(* sendRPC, and Initialize around it.                                      *)

Goto(c, from, to) == cpc[c] = from /\ cpc' = [cpc EXCEPT ![c] = to]

\* The goroutine's locals go out of scope with the return.
Return(c) ==
    /\ dest' = [dest EXCEPT ![c] = None]
    /\ callID' = [callID EXCEPT ![c] = 0]
    /\ got' = [got EXCEPT ![c] = NoReply]

\* "proxy not started, call StartReader first"
Refuse(c) ==
    /\ ~running
    /\ Goto(c, "idle", "done")
    /\ UNCHANGED <<proxyVars, readerVars, dest, callID, buf, closed, got, serverVars>>

\* A counter that is read again before it is incremented.
RegisterStale(c, s) ==
    /\ running
    /\ nextID <= MaxId
    /\ Goto(c, "idle", "registered")
    /\ dest' = [dest EXCEPT ![c] = s]
    /\ \E i \in {nextID, nextID - 1} \ {0} :
        /\ callID' = [callID EXCEPT ![c] = i]
        /\ pending' = [pending EXCEPT ![i] = c]
        /\ nextID' = i + 1
    /\ UNCHANGED <<running, readerCh, doneClosed, writer, panicked, stops,
                   readerVars, buf, closed, got, serverVars>>

\* The id read back after the increment.
RegisterPastIncrement(c, s) ==
    /\ running
    /\ nextID <= MaxId
    /\ Goto(c, "idle", "registered")
    /\ dest' = [dest EXCEPT ![c] = s]
    /\ callID' = [callID EXCEPT ![c] = nextID + 1]
    /\ pending' = [pending EXCEPT ![nextID + 1] = c]
    /\ nextID' = nextID + 1
    /\ UNCHANGED <<running, readerCh, doneClosed, writer, panicked, stops,
                   readerVars, buf, closed, got, serverVars>>

Register(c, s) ==
    /\ running
    /\ nextID <= MaxId
    /\ Goto(c, "idle", "registered")
    /\ dest' = [dest EXCEPT ![c] = s]
    /\ callID' = [callID EXCEPT ![c] = nextID]
    /\ pending' = [pending EXCEPT ![nextID] = c]
    /\ nextID' = nextID + 1
    /\ UNCHANGED <<running, readerCh, doneClosed, writer, panicked, stops,
                   readerVars, buf, closed, got, serverVars>>

\* writeMu.Lock, for the request and for the "initialized" notification.
LockWriter(c) ==
    /\ writer = None
    /\ writer' = c
    /\ Goto(c, "registered", "writing") \/ Goto(c, "notify", "notifying")
    /\ UNCHANGED <<nextID, pending, running, readerCh, doneClosed, panicked, stops,
                   readerVars, dest, callID, buf, closed, got, serverVars>>

\* stdin.Write returns when the pipe has room or is broken; then writeMu.Unlock.
WriteRequest(c) ==
    /\ writer' = None
    /\ \/ /\ Goto(c, "writing", "leaving")
          /\ exited[dest[c]]
          /\ inbox' = inbox
       \/ /\ Goto(c, "writing", "waiting")
          /\ ~exited[dest[c]]
          /\ ~stalled[dest[c]]
          /\ inbox' = [inbox EXCEPT ![dest[c]] = @ \cup {callID[c]}]
    /\ UNCHANGED <<nextID, pending, running, readerCh, doneClosed, panicked, stops,
                   readerVars, dest, callID, buf, closed, got, exited, stalled>>

WriteNotification(c) ==
    /\ Goto(c, "notifying", "done")
    /\ exited[dest[c]] \/ ~stalled[dest[c]]
    /\ writer' = None
    /\ Return(c)
    /\ UNCHANGED <<nextID, pending, running, readerCh, doneClosed, panicked, stops,
                   readerVars, buf, closed, serverVars>>

\* The select: a buffered response wins over the close that followed it.
Receive(c) ==
    /\ \/ /\ buf[c] # NoReply
          /\ Goto(c, "waiting", "answered")
       \/ /\ buf[c] = NoReply
          /\ c \in closed
          /\ Goto(c, "waiting", "leaving")
    /\ got' = [got EXCEPT ![c] = buf[c]]
    /\ buf' = [buf EXCEPT ![c] = NoReply]
    /\ UNCHANGED <<proxyVars, readerVars, dest, callID, closed, serverVars>>

\* A select that gives up only while the reader runs.
ExpireIfRunning(c) ==
    /\ running
    /\ Goto(c, "waiting", "leaving")
    /\ UNCHANGED <<proxyVars, readerVars, dest, callID, buf, closed, got, serverVars>>

\* time.After(timeout): the timer may fire however soon the answer comes.
Expire(c) ==
    /\ Goto(c, "waiting", "leaving")
    /\ UNCHANGED <<proxyVars, readerVars, dest, callID, buf, closed, got, serverVars>>

\* Error paths that return without delete(p.pending, id).
FinishLeaky(c) ==
    /\ \/ Goto(c, "leaving", "done") /\ Return(c)
       \/ Goto(c, "answered", "done") /\ Return(c)
       \/ c \in Handshakes /\ Goto(c, "answered", "notify") /\ UNCHANGED <<dest, callID, got>>
    /\ pending' = IF cpc[c] = "leaving" THEN pending
                  ELSE [pending EXCEPT ![callID[c]] = None]
    /\ UNCHANGED <<nextID, running, readerCh, doneClosed, writer, panicked, stops,
                   readerVars, buf, closed, serverVars>>

\* delete(p.pending, id) under mu, then the return of sendRPC and, unless it is
\* an Initialize whose answer carries no error, of its caller.
Finish(c) ==
    /\ \/ Goto(c, "leaving", "done") /\ Return(c)
       \/ Goto(c, "answered", "done") /\ Return(c)
       \/ c \in Handshakes /\ Goto(c, "answered", "notify") /\ UNCHANGED <<dest, callID, got>>
    /\ pending' = [pending EXCEPT ![callID[c]] = None]
    /\ UNCHANGED <<nextID, running, readerCh, doneClosed, writer, panicked, stops,
                   readerVars, buf, closed, serverVars>>

-----------------------------------------------------------------------------
(* The server processes, as the proxy uses them: each answers a request it *)
(* has read at most once and in any order (so its stdout is the set inbox),*)
(* and may end, its last answers still in the pipe, or stall at any time.  *)

Exit(s) ==
    /\ ~exited[s]
    /\ exited' = [exited EXCEPT ![s] = TRUE]
    /\ \E answered \in SUBSET inbox[s] : inbox' = [inbox EXCEPT ![s] = answered]
    /\ UNCHANGED <<proxyVars, readerVars, callVars, stalled>>

Stall(s) ==
    /\ s \in MayStall
    /\ ~exited[s]
    /\ ~stalled[s]
    /\ stalled' = [stalled EXCEPT ![s] = TRUE]
    /\ UNCHANGED <<proxyVars, readerVars, callVars, inbox, exited>>

-----------------------------------------------------------------------------

ReaderStep(s) ==
    \/ Gate(s) \/ Lookup(s) \/ Deliver(s) \/ SendOnClosed(s)
    \/ EndOfStream(s) \/ CloseDone(s)

CallStep(c) ==
    \/ LockWriter(c) \/ WriteRequest(c) \/ WriteNotification(c)
    \/ Receive(c) \/ Expire(c) \/ Finish(c)

Next ==
    /\ ~panicked
    /\ \/ Stop
       \/ \E s \in Streams :
            \/ StartReader(s) \/ ReadLine(s) \/ ReaderStep(s)
            \/ LineTooLong(s) \/ Exit(s) \/ Stall(s)
       \/ \E c \in Calls :
            \/ CallStep(c) \/ Refuse(c)
            \/ \E s \in Streams : Register(c, s)

Spec == Init /\ [][Next]_vars

\* A goroutine that can run does run, and a timer that is armed fires.  Nothing
\* is assumed of the servers, of Stop or of the arrival of calls.
Fairness ==
    /\ \A s \in Streams : WF_vars(~panicked /\ ReaderStep(s))
    /\ \A c \in Calls : WF_vars(~panicked /\ CallStep(c))

FairSpec == Spec /\ Fairness

-----------------------------------------------------------------------------
(* Properties.                                                             *)

TypeOK ==
    /\ nextID \in Nat \ {0}
    /\ pending \in [Ids -> Calls \cup {None}]
    /\ running \in BOOLEAN
    /\ readerCh \in Streams \cup {None}
    /\ doneClosed \in BOOLEAN
    /\ writer \in Calls \cup {None}
    /\ panicked \in BOOLEAN
    /\ stops \in 0..MaxStops
    /\ reader \in [Streams -> ReaderStates]
    /\ line \in [Streams -> Ids \cup {0}]
    /\ gateCh \in [Streams -> Streams \cup {None}]
    /\ target \in [Streams -> Calls \cup {None}]
    /\ cpc \in [Calls -> CallStates]
    /\ dest \in [Calls -> Streams \cup {None}]
    /\ callID \in [Calls -> Ids \cup {0}]
    /\ buf \in [Calls -> Replies \cup {NoReply}]
    /\ closed \subseteq Calls
    /\ got \in [Calls -> Replies \cup {NoReply}]
    /\ inbox \in [Streams -> SUBSET Ids]
    /\ exited \in [Streams -> BOOLEAN]
    /\ stalled \in [Streams -> BOOLEAN]

InFlight == {"registered", "writing", "waiting", "answered", "leaving"}

\* Whatever the readers of all the servers and the other calls do, a call only
\* ever receives the answer to its own request, from the server it wrote to.
OwnReply == \A c \in Calls : got[c] # NoReply => got[c] = <<callID[c], dest[c]>>

\* The pending table holds exactly the calls that can still be answered: an
\* entry belongs to a call that has not returned (no leak on the timeout, write
\* error and Stop paths), and a call in its select that was neither answered nor
\* woken still has its entry (no answer can miss it).
PendingExact ==
    /\ \A i \in Ids : pending[i] # None =>
            callID[pending[i]] = i /\ cpc[pending[i]] \in InFlight
    /\ \A c \in Calls : cpc[c] = "waiting" /\ buf[c] = NoReply /\ c \notin closed =>
            pending[callID[c]] = c

-----------------------------------------------------------------------------
(* What has to be remembered for OwnReply and PendingExact to be inductive. *)

\* Two calls in progress never share an id, and no id is reused.
UniqueIds ==
    /\ \A c \in Calls : callID[c] < nextID
    /\ \A c, d \in Calls : callID[c] # 0 /\ callID[c] = callID[d] => c = d

\* A call has an id and a server exactly while sendRPC or Initialize runs.
Located ==
    \A c \in Calls :
        /\ cpc[c] \in {"idle", "done"} => callID[c] = 0
        /\ cpc[c] \notin {"idle", "done"} => callID[c] # 0 /\ dest[c] # None
        /\ cpc[c] = "idle" => got[c] = NoReply

\* An id on its way back from stream s was written to s by the call that owns it.
ComesFrom(i, s) == i < nextID /\ \A c \in Calls : callID[c] = i => dest[c] = s

\* The call owns id i, or it has returned since.
OwnsOrReturned(c, i) == callID[c] = i \/ cpc[c] = "done"

Provenance ==
    /\ \A s \in Streams : \A i \in inbox[s] : ComesFrom(i, s)
    /\ \A s \in Streams : line[s] # 0 => ComesFrom(line[s], s)
    /\ \A s \in Streams : reader[s] \in {"lookup", "deliver"} => line[s] # 0
    /\ \A s \in Streams : reader[s] = "deliver" =>
            target[s] # None /\ OwnsOrReturned(target[s], line[s])
    /\ \A c \in Calls : buf[c] # NoReply =>
            OwnsOrReturned(c, buf[c][1]) /\ ComesFrom(buf[c][1], buf[c][2])

\* From registration on, a call's entry is removed by Stop, which closes the
\* channel, or by the call itself.
Registered ==
    \A c \in Calls : cpc[c] \in {"registered", "writing", "waiting"} /\ c \notin closed =>
        pending[callID[c]] = c

IInv == TypeOK /\ OwnReply /\ PendingExact /\ UniqueIds /\ Located /\ Provenance /\ Registered

-----------------------------------------------------------------------------
\* Every registered request returns, whatever the servers do, unless the process
\* died or a live server no longer drains its stdin: stdin.Write has no timeout
\* and is made under the one writeMu.
CallReturns ==
    \A c \in Calls : cpc[c] = "registered" ~>
        (cpc[c] = "done" \/ panicked \/ \E s \in Streams : stalled[s])

\* A reader that looked up a channel is not stuck sending to it, even when the
\* caller timed out in between: the channel has one buffer slot.
ReaderNotStuck ==
    \A s \in Streams : reader[s] = "deliver" ~> (reader[s] # "deliver" \/ panicked)

\* broker.go on DeregisterServer: the shared proxy is not stopped, because the
\* other servers use it.  So no call is refused while a server that is up is
\* being read from and nobody called Stop.
NotRefusedWhileUp ==
    [][\A c \in Calls : Refuse(c) /\ stops = 0 =>
          ~\E s \in Streams : reader[s] \notin {"none", "closing", "dead"} /\ ~exited[s]]_vars
=============================================================================
