--------------------------- MODULE BrokerLifecycle ---------------------------
(***************************************************************************)
(* Life of the MCP servers of a broker: broker.go (StartServer, Reload...,  *)
(* Deregister..., Activate...), launcher/launcher.go and                    *)
(* registry/registry.go.  The back end reads its requests from one stdin    *)
(* and serves them in turn, so one request runs at a time; what runs beside *)
(* it are the server processes, the goroutine launcher.Start leaves behind  *)
(* for each process, and the reader goroutine of each stdout.               *)
(*                                                                          *)
(* The proxy is seen here only as the readers attached to it, its running   *)
(* flag and its readerDone channel; McpProxy is its detailed model.         *)
(***************************************************************************)
EXTENDS Naturals, Sequences

CONSTANTS
    Names,        \* server names
    Stdio,        \* configurations of a subprocess that has pipes
    Http,         \* configurations of an HTTP or SSE endpoint
    Menus,        \* the transport lists an MCPServerConfig may declare
    MaxProcs,     \* bound on the processes ever launched
    None          \* nil

Configs == Stdio \cup Http
Procs   == 1..MaxProcs

\* ServerEntry: its configuration, its running process and the tools it announced.
Entries == [config : Configs, proc : Procs \cup {None}, tools : Configs \cup {None}]

ASSUME LifecycleAssumption ==
    /\ MaxProcs \in Nat
    /\ Stdio \cap Http = {}
    /\ None \notin Configs \cup Procs \cup Entries
    /\ \A ts \in Menus : ts \in Seq(Configs) /\ ts # <<>>

VARIABLES
    entry,        \* Registry.servers: name -> ServerEntry, or nil
    httpClients,  \* the names in Broker.httpClients
    running,      \* MCPProxy.running
    readers,      \* the processes whose stdout a reader of the proxy scans
    ending,       \* the processes whose reader has left its loop and not closed readerDone
    doneClosed,   \* has the channel now in MCPProxy.readerDone been closed?
    panicked,     \* a reader closed it a second time, which ended the back end
    life,         \* the processes, as the operating system has them
    launched,     \* the name and configuration each process was launched for
    signalled,    \* the processes Stop has interrupted or killed
    watch,        \* the goroutine of launcher.Start that waits for the process
    pc,           \* where the request in progress is, "idle" between requests
    name,         \* the server the request is about
    cur,          \* the process in a local variable of the request
    then,         \* where the request goes on when launcher.Stop returns
    todo,         \* the transports still to try
    old           \* oldConfig of the attempt, nil outside Activate...

procVars    == <<life, launched, signalled>>
proxyVars   == <<running, readers, ending, doneClosed, panicked>>
requestVars == <<pc, name, cur, then, todo, old>>
vars == <<entry, httpClients, proxyVars, procVars, watch, requestVars>>

Registered(n) == entry[n] # None
Unlaunched    == [name |-> None, config |-> None]
NewEntry(c)   == [config |-> c, proc |-> None, tools |-> None]
Exited(p)     == life[p] \in {"succeeded", "failed"}

Init ==
    /\ entry = [n \in Names |-> None]
    /\ httpClients = {}
    /\ running = FALSE
    /\ readers = {}
    /\ ending = {}
    /\ doneClosed = FALSE
    /\ panicked = FALSE
    /\ life = [p \in Procs |-> "unused"]
    /\ launched = [p \in Procs |-> Unlaunched]
    /\ signalled = {}
    /\ watch = [p \in Procs |-> "none"]
    /\ pc = "idle"
    /\ name = None
    /\ cur = None
    /\ then = None
    /\ todo = <<>>
    /\ old = None

-----------------------------------------------------------------------------
(* Control of the request in progress.                                     *)

Return ==
    /\ pc' = "idle"
    /\ name' = None
    /\ cur' = None
    /\ then' = None
    /\ todo' = <<>>
    /\ old' = None

Begin(n, at) == pc = "idle" /\ pc' = at /\ name' = n

Step(from, to) == pc = from /\ pc' = to /\ UNCHANGED <<name, todo, old>>

\* StartReader and Stop of the proxy close the current readerCh; a reader that
\* holds a copy of it at that moment leaves its loop.
SomeReadersReturn(added) ==
    \E gone \in SUBSET readers :
        /\ readers' = (readers \ gone) \cup added
        /\ ending' = ending \cup gone

ProxyStop ==
    /\ running' = FALSE
    /\ SomeReadersReturn({})
    /\ UNCHANGED <<doneClosed, panicked>>

\* StartReader puts a new channel into readerDone.
ProxyStartReader(p) ==
    /\ running' = TRUE
    /\ SomeReadersReturn({p})
    /\ doneClosed' = FALSE
    /\ UNCHANGED panicked

-----------------------------------------------------------------------------
(* Registration.  RegisterServer and RegisterMCPServer overwrite an entry;  *)
(* ImportProfile only registers the names that have none.                   *)

Register(n, c) ==
    /\ pc = "idle"
    /\ entry' = [entry EXCEPT ![n] = NewEntry(c)]
    /\ UNCHANGED <<httpClients, proxyVars, procVars, watch, requestVars>>

-----------------------------------------------------------------------------
(* Requests.                                                               *)

StartServer(n) ==
    /\ Registered(n)
    /\ Begin(n, "launch")
    /\ UNCHANGED <<entry, httpClients, proxyVars, procVars, watch,
                   cur, then, todo, old>>

\* ReloadServer (c is the configuration it has) and ReloadServerWithConfig.
Reload(n, c) ==
    /\ Registered(n)
    /\ entry' = [entry EXCEPT ![n].config = c]
    /\ \/ /\ entry[n].proc = None
          /\ Begin(n, "launch")
          /\ UNCHANGED <<proxyVars, then>>
       \/ /\ entry[n].proc # None
          /\ Begin(n, "stop")
          /\ then' = "launch"
          /\ ProxyStop
    /\ UNCHANGED <<httpClients, procVars, watch, cur, todo, old>>

\* DeregisterServer that leaves the process to the end of the pipes.
DeregisterUnstopped(n) ==
    /\ Begin(n, "remove")
    /\ httpClients' = httpClients \ {n}
    /\ then' = then
    /\ UNCHANGED <<entry, proxyVars, procVars, watch, cur, todo, old>>

\* DeregisterServer that forgets the HTTP client.
DeregisterKeepClient(n) ==
    /\ Begin(n, "stop")
    /\ then' = "remove"
    /\ UNCHANGED <<entry, httpClients, proxyVars, procVars, watch, cur, todo, old>>

\* DeregisterServer, and DeactivateMCPServer of a registered name.
Deregister(n) ==
    /\ Begin(n, "stop")
    /\ httpClients' = httpClients \ {n}
    /\ then' = "remove"
    /\ UNCHANGED <<entry, proxyVars, procVars, watch, cur, todo, old>>

Rotate(ts, i) == SubSeq(ts, i, Len(ts)) \o SubSeq(ts, 1, i - 1)

\* ActivateMCPServerWithTransport on a registered server.
Activate(n, ts, i) ==
    /\ Registered(n)
    /\ Begin(n, "try")
    /\ todo' = Rotate(ts, i)
    /\ UNCHANGED <<entry, httpClients, proxyVars, procVars, watch, cur, then, old>>

\* ActivateFromCatalog: RegisterMCPServer with the first transport, then the same.
ActivateFromCatalog(n, ts, i) ==
    /\ entry' = [entry EXCEPT ![n] = NewEntry(ts[1])]
    /\ Begin(n, "try")
    /\ todo' = Rotate(ts, i)
    /\ UNCHANGED <<httpClients, proxyVars, procVars, watch, cur, then, old>>

-----------------------------------------------------------------------------
(* The loop over the transports.                                           *)

TryHttp ==
    /\ pc = "try"
    /\ todo # <<>>
    /\ Head(todo) \in Http
    /\ \/ /\ todo' = Tail(todo)          \* Initialize or ListTools failed
          /\ UNCHANGED <<entry, httpClients, pc, name, cur, then, old>>
       \/ /\ entry' = [entry EXCEPT ![name] =
                [config |-> Head(todo), proc |-> None, tools |-> Head(todo)]]
          /\ httpClients' = httpClients \cup {name}
          /\ Return
    /\ UNCHANGED <<proxyVars, procVars, watch>>

TryStdio ==
    /\ pc = "try"
    /\ todo # <<>>
    /\ Head(todo) \in Stdio
    /\ old' = entry[name].config
    /\ entry' = [entry EXCEPT ![name].config = Head(todo)]
    /\ todo' = Tail(todo)
    /\ pc' = "launch"
    /\ UNCHANGED <<httpClients, proxyVars, procVars, watch, name, cur, then>>

AllTransportsFailed ==
    /\ pc = "try"
    /\ todo = <<>>
    /\ Return
    /\ UNCHANGED <<entry, httpClients, proxyVars, procVars, watch>>

\* A start that failed is tried again.
StartFailedRetries ==
    /\ pc = "failed"
    /\ pc' = "launch"
    /\ UNCHANGED <<entry, httpClients, proxyVars, procVars, watch,
                   name, cur, then, todo, old>>

\* StartServer returned an error: Activate... restores the configuration and
\* goes on with the next transport, the other requests return it.
StartFailed ==
    /\ pc = "failed"
    /\ IF old = None THEN Return /\ entry' = entry
       ELSE /\ entry' = [entry EXCEPT ![name].config = old]
            /\ pc' = "try"
            /\ old' = None
            /\ UNCHANGED <<name, cur, then, todo>>
    /\ UNCHANGED <<httpClients, proxyVars, procVars, watch>>

-----------------------------------------------------------------------------
(* StartServer.                                                            *)

\* launcher.Start: the process is launched and published, with the tools of its
\* predecessor, and a goroutine is left to watch it.
Launch ==
    \E p \in Procs :
        /\ life[p] = "unused"
        /\ \A q \in 1..p-1 : life[q] # "unused"
        /\ Step("launch", "attach")
        /\ life' = [life EXCEPT ![p] = "running"]
        /\ launched' = [launched EXCEPT ![p] = [name |-> name, config |-> entry[name].config]]
        /\ entry' = [entry EXCEPT ![name].proc = p]
        /\ watch' = [watch EXCEPT ![p] = "waiting"]
        /\ UNCHANGED <<httpClients, proxyVars, signalled, cur, then>>

\* BuildCommand or cmd.Start failed.
LaunchFails ==
    /\ Step("launch", "failed")
    /\ UNCHANGED <<entry, httpClients, proxyVars, procVars, watch, cur, then>>

HasPipes == entry[name].proc # None /\ launched[entry[name].proc].config \in Stdio

\* The snapshot has pipes: StartReader.
Attach ==
    /\ Step("attach", "handshake")
    /\ HasPipes
    /\ cur' = entry[name].proc
    /\ ProxyStartReader(cur')
    /\ UNCHANGED <<entry, httpClients, procVars, watch, then>>

\* "no stdio pipes after start": an HTTP configuration was launched as a
\* process, or the runtime has been cleared since.
NoPipes ==
    /\ Step("attach", "failed")
    /\ ~HasPipes
    /\ UNCHANGED <<entry, httpClients, proxyVars, procVars, watch, cur, then>>

\* Initialize and ListTools answered; SetTools on the entry.
Handshake ==
    /\ pc = "handshake"
    /\ running
    /\ cur \in readers
    /\ entry' = [entry EXCEPT ![name].tools = launched[cur].config]
    /\ Return
    /\ UNCHANGED <<httpClients, proxyVars, procVars, watch>>

\* A handshake that fails and returns before the process is stopped.
HandshakeFailsDirty ==
    /\ Step("handshake", "failed")
    /\ ProxyStop
    /\ cur' = None
    /\ then' = then
    /\ UNCHANGED <<entry, httpClients, procVars, watch>>

\* An error, a refusal or a timeout of either: proxy.Stop, then launcher.Stop.
HandshakeFails ==
    /\ Step("handshake", "stop")
    /\ then' = "failed"
    /\ cur' = None
    /\ ProxyStop
    /\ UNCHANGED <<entry, httpClients, procVars, watch>>

-----------------------------------------------------------------------------
(* launcher.Stop.                                                          *)

NothingToStop ==
    /\ Step("stop", then)
    /\ Registered(name) => entry[name].proc = None
    /\ then' = None
    /\ UNCHANGED <<entry, httpClients, proxyVars, procVars, watch, cur>>

Interrupt ==
    /\ Step("stop", "wait")
    /\ Registered(name)
    /\ entry[name].proc # None
    /\ cur' = entry[name].proc
    /\ signalled' = signalled \cup {cur'}
    /\ UNCHANGED <<entry, httpClients, proxyVars, life, launched, watch, then>>

ClearRuntime(n) ==
    entry' = IF Registered(n) THEN [entry EXCEPT ![n].proc = None] ELSE entry

\* The process exited, or is killed after five seconds; either way the entry is
\* cleared, by name.
Stopped ==
    /\ Step("wait", then)
    /\ ClearRuntime(name)
    /\ cur' = None
    /\ then' = None
    /\ UNCHANGED <<httpClients, proxyVars, procVars, watch>>

\* registry.Deregister, the last step of DeregisterServer.
Remove ==
    /\ pc = "remove"
    /\ entry' = [entry EXCEPT ![name] = None]
    /\ Return
    /\ UNCHANGED <<httpClients, proxyVars, procVars, watch>>

-----------------------------------------------------------------------------
(* The processes and the goroutines beside the request.                    *)

Exit(p) ==
    /\ life[p] = "running"
    /\ \E status \in {"succeeded", "failed"} : life' = [life EXCEPT ![p] = status]
    /\ UNCHANGED <<entry, httpClients, proxyVars, launched, signalled, watch,
                   requestVars>>

\* A reader ends with its stream, or with a line its scanner has no room for.
EndOfStream(p) ==
    /\ p \in readers
    /\ readers' = readers \ {p}
    /\ ending' = ending \cup {p}
    /\ running' = FALSE
    /\ UNCHANGED <<entry, httpClients, doneClosed, panicked, procVars, watch, requestVars>>

\* close(p.readerDone): the field may hold the channel of a later StartReader by now,
\* which the later reader closes too.
CloseDone(p) ==
    /\ p \in ending
    /\ ending' = ending \ {p}
    /\ doneClosed' = TRUE
    /\ panicked' = doneClosed
    /\ UNCHANGED <<entry, httpClients, running, readers, procVars, watch, requestVars>>

\* A watcher that clears nothing, however the process ended.
ReapIgnored(p) ==
    /\ watch[p] = "waiting"
    /\ Exited(p)
    /\ watch' = [watch EXCEPT ![p] = "done"]
    /\ UNCHANGED <<entry, httpClients, proxyVars, procVars, requestVars>>

\* The Wait of the watcher returns: with the status, or with an error when the
\* Wait of a Stop has taken it.
Reap(p) ==
    /\ watch[p] = "waiting"
    /\ Exited(p)
    /\ \/ /\ life[p] = "failed"
          /\ watch' = [watch EXCEPT ![p] = "clearing"]
       \/ /\ life[p] = "succeeded" \/ p \in signalled
          /\ watch' = [watch EXCEPT ![p] = "done"]
    /\ UNCHANGED <<entry, httpClients, proxyVars, procVars, requestVars>>

\* clearAfterExit by the watcher: the entry is found by its name.
ClearAfterExit(p) ==
    /\ watch[p] = "clearing"
    /\ watch' = [watch EXCEPT ![p] = "done"]
    /\ ClearRuntime(launched[p].name)
    /\ UNCHANGED <<httpClients, proxyVars, procVars, requestVars>>

-----------------------------------------------------------------------------

Request ==
    \E n \in Names :
        \/ StartServer(n)
        \/ Deregister(n)
        \/ \E c \in Configs : Register(n, c) \/ Reload(n, c)
        \/ \E ts \in Menus : \E i \in 1..Len(ts) :
                Activate(n, ts, i) \/ ActivateFromCatalog(n, ts, i)

RequestStep ==
    \/ TryHttp \/ TryStdio \/ AllTransportsFailed \/ StartFailed
    \/ Launch \/ LaunchFails \/ Attach \/ NoPipes \/ Handshake \/ HandshakeFails
    \/ NothingToStop \/ Interrupt \/ Stopped \/ Remove

Watcher(p) == Reap(p) \/ ClearAfterExit(p)

Next ==
    /\ ~panicked
    /\ \/ Request
       \/ RequestStep
       \/ \E p \in Procs : Exit(p) \/ EndOfStream(p) \/ CloseDone(p) \/ Watcher(p)

Spec == Init /\ [][Next]_vars

\* The request in progress and the goroutines run while the back end does.  No
\* process has to exit.
FairSpec ==
    /\ Spec
    /\ WF_vars(~panicked /\ RequestStep)
    /\ \A p \in Procs : WF_vars(~panicked /\ Watcher(p))

-----------------------------------------------------------------------------
(* Properties.                                                             *)

TypeOK ==
    /\ entry \in [Names -> Entries \cup {None}]
    /\ httpClients \subseteq Names
    /\ running \in BOOLEAN
    /\ readers \subseteq Procs
    /\ ending \subseteq Procs
    /\ doneClosed \in BOOLEAN
    /\ panicked \in BOOLEAN
    /\ life \in [Procs -> {"unused", "running", "succeeded", "failed"}]
    /\ launched \in [Procs -> [name : Names, config : Configs] \cup {Unlaunched}]
    /\ signalled \subseteq Procs
    /\ watch \in [Procs -> {"none", "waiting", "clearing", "done"}]
    /\ pc \in {"idle", "try", "launch", "attach", "handshake", "stop", "wait", "remove",
               "failed"}
    /\ name \in Names \cup {None}
    /\ cur \in Procs \cup {None}
    /\ then \in {"launch", "failed", "remove", None}
    /\ todo \in Seq(Configs)
    /\ old \in Configs \cup {None}

Holds(n, p) == Registered(n) /\ entry[n].proc = p

\* Between requests the process an entry shows was launched for that name with
\* the configuration the entry shows, and the tools listed are the ones this
\* process announced: no failed start, reload or activation leaves behind the
\* configuration, the process or the tools of another attempt.
RunsItsConfig ==
    pc = "idle" => \A n \in Names, p \in Procs : Holds(n, p) =>
        /\ launched[p] = [name |-> n, config |-> entry[n].config]
        /\ entry[n].config \in Stdio => entry[n].tools = entry[n].config

\* Broker.Call looks a name up in httpClients before the registry: a client that
\* outlived its entry would go on serving calls to a deregistered server.
ClientsRegistered == pc = "idle" => \A n \in httpClients : Registered(n)

\* launcher.Stop and registry.Deregister never let go of a process that nobody
\* told to stop, whichever watcher ran in between.
StopsWhatItDrops ==
    [][(Stopped \/ Remove) => \A n \in Names, p \in Procs :
            Holds(n, p) /\ ~Holds(n, p)' => p \in signalled \/ Exited(p)]_vars

\* Every request is answered, even when servers hang or crash: the handshake and
\* the stop have timeouts and each transport is tried once.  The one exception is the
\* code's own: two readers of the shared proxy that both end after the second was
\* started close readerDone twice, and the panic takes the back end with the request.
RequestReturns == pc # "idle" ~> (pc = "idle" \/ panicked)

\* A process that crashed does not stay listed as running: its watcher clears the
\* entry, or the Stop that took its exit status does, unless the back end panics first.
CrashNoticed ==
    \A n \in Names, p \in Procs :
        Holds(n, p) /\ life[p] = "failed" ~> (~Holds(n, p) \/ panicked)

\* broker.go on Call: HTTP servers use the stored client, stdio servers use the
\* shared proxy.  So no client is stored for a name that runs a stdio server.
RoutedByTransport ==
    pc = "idle" => \A n \in httpClients, p \in Procs :
        Holds(n, p) => launched[p].config \in Http

\* launcher.go on clearAfterExit: it clears the running state after a process
\* exits.  So a watcher does not clear a process that has not exited.
ClearsExited ==
    [][\A p, q \in Procs : ClearAfterExit(p) /\ Holds(launched[p].name, q) => Exited(q)]_vars
=============================================================================
